---- MODULE Spec2Model ----
(***************************************************************************)
(* PixelForge Nexus: the authentication, lockout, token and authorization  *)
(* core of the backend, as a state machine.                                 *)
(*                                                                         *)
(* The stores (users, projects, documents, messages) are functions whose   *)
(* domain is the set of ids present in the collection.  Every action is    *)
(* one HTTP request handled to completion: the route's middleware chain    *)
(* followed by the controller; the specifications of concurrent requests   *)
(* run a handler in the steps its awaits cut it into, with inflight        *)
(* holding the handlers that wait.  resp holds the response of the last    *)
(* request.  Time is in milliseconds, as Date.now() is.                     *)
(***************************************************************************)
EXTENDS Integers, Sequences, FiniteSets, TLC

VARIABLES
  users,      \* User collection: id -> user document
  projects,   \* Project collection: id -> project document
  documents,  \* Document collection: id -> document record
  messages,   \* Message collection: id -> message document
  tokens,     \* JWTs that have been issued and are held by clients
  rateHits,   \* authRateLimit's store: key -> [count, resetTime]
  config,     \* config.jwt: the two signing secrets
  now,        \* Date.now()
  resp,       \* the response to the last request
  inflight,   \* requests in flight: request id -> the handler's locals at its await
  client      \* the browser: localStorage, window.location and apiClient's requests

vars == <<users, projects, documents, messages, tokens, rateHits, config, now, resp,
         inflight, client>>

-----------------------------------------------------------------------------
(* Bounds of the model *)

\* 15-minute slots the clock may advance through
MaxSlots == 9
\* tokens held by clients
MaxTokens == 2

-----------------------------------------------------------------------------
(* Program constants *)

MsPerSecond == 1000
\* incLoginAttempts: maxAttempts
maxAttempts == 5
\* incLoginAttempts: lockTime = 2 * 60 * 60 * 1000
lockTime == 7200000
\* authRateLimit: windowMs = 15 * 60 * 1000
authWindowMs == 900000
\* authRateLimit: max
authMax == 5
\* config.jwt.expiration '15m', in seconds
accessExpSec == 900
\* config.jwt.refreshExpiration '7d', in seconds
refreshExpSec == 604800

Roles == {"admin", "project-lead", "developer"}

\* a Date field holding null
NullDate == -1

\* an ObjectId field holding null / undefined
NullId == "null"

-----------------------------------------------------------------------------
(* Credential Verifier: bcryptjs.hash / bcryptjs.compare *)

\* a bcrypt digest of secret p (the salt does not change what compare answers)
Hash(p) == <<"bcrypt", p>>

verifyPassword(user, candidatePassword) == user.password = Hash(candidatePassword)

-----------------------------------------------------------------------------
(* Lockout Tracker: User.js *)

\* isLocked with the comparison turned round
isLocked_reversed(user, t) == user.lockUntil # NullDate /\ user.lockUntil < t

isLocked(user, t) == user.lockUntil # NullDate /\ user.lockUntil > t

\* the threshold test written with > for >=
incLoginAttempts_offByOne(user, t) ==
  IF user.lockUntil # NullDate /\ user.lockUntil < t
  THEN [user EXCEPT !.loginAttempts = 1, !.lockUntil = NullDate]
  ELSE IF user.loginAttempts + 1 > maxAttempts
       THEN [user EXCEPT !.loginAttempts = @ + 1, !.lockUntil = t + lockTime]
       ELSE [user EXCEPT !.loginAttempts = @ + 1]

incLoginAttempts(user, t) ==
  IF user.lockUntil # NullDate /\ user.lockUntil < t
  THEN [user EXCEPT !.loginAttempts = 1, !.lockUntil = NullDate]
  ELSE IF user.loginAttempts + 1 >= maxAttempts
       THEN [user EXCEPT !.loginAttempts = @ + 1, !.lockUntil = t + lockTime]
       ELSE [user EXCEPT !.loginAttempts = @ + 1]

\* resetLoginAttempts leaving the lock date in place
resetLoginAttempts_keepLock(user, t) ==
  [user EXCEPT !.loginAttempts = 0, !.lastLogin = t]

resetLoginAttempts(user, t) ==
  [user EXCEPT !.loginAttempts = 0, !.lastLogin = t, !.lockUntil = NullDate]

\* pre('save') when the password path is modified
setPassword(user, p, t) ==
  [user EXCEPT !.password = Hash(p), !.passwordChangedAt = t]

passwordChangedAfter(user, jwtTimestamp) ==
  IF user.passwordChangedAt # NullDate
  THEN jwtTimestamp < (user.passwordChangedAt \div MsPerSecond)
  ELSE FALSE

-----------------------------------------------------------------------------
(* Session Token Issuer/Verifier: utils/jwt.js over jsonwebtoken *)

jwtIssuer == "pixelforge-nexus"
jwtAudience == "pixelforge-nexus-client"

\* Math.floor(Date.now() / 1000), the clock jsonwebtoken stamps and compares
ClockSeconds(t) == t \div MsPerSecond

\* A signed token is its payload and the secret it was signed with.  The field
\* at is the instant of issue in milliseconds; it is not part of the payload
\* and no verifier reads it.
generateAccessToken(userId, role, t) ==
  [sub |-> userId, role |-> role, type |-> "access",
   iat |-> ClockSeconds(t), exp |-> ClockSeconds(t) + accessExpSec,
   iss |-> jwtIssuer, aud |-> jwtAudience, key |-> config.secret, at |-> t]

generateRefreshToken(userId, t) ==
  [sub |-> userId, role |-> "-", type |-> "refresh",
   iat |-> ClockSeconds(t), exp |-> ClockSeconds(t) + refreshExpSec,
   iss |-> jwtIssuer, aud |-> "-", key |-> config.refreshSecret, at |-> t]

\* a string that is no JWT ('invalid.token.here')
GarbageToken ==
  [sub |-> NullId, role |-> "-", type |-> "garbage", iat |-> 0, exp |-> 0,
   iss |-> "-", aud |-> "-", key |-> "-", at |-> 0]

\* jwt.verify: signature, then expiry, then audience, then issuer
jwtVerify(token, secret, audience, t) ==
  IF token.key # secret THEN "invalid"
  ELSE IF ClockSeconds(t) >= token.exp THEN "expired"
  ELSE IF audience # "-" /\ token.aud # audience THEN "invalid"
  ELSE IF token.iss # jwtIssuer THEN "invalid"
  ELSE "ok"

verifyAccessToken(token, t) == jwtVerify(token, config.secret, jwtAudience, t)

verifyRefreshToken(token, t) == jwtVerify(token, config.refreshSecret, "-", t)

-----------------------------------------------------------------------------
(* Subject Resolver: middleware/auth.js *)

NoSubject == [id |-> NullId, role |-> "-", email |-> "-"]

\* a request's Authorization header
NoHeader == [scheme |-> "none", token |-> GarbageToken]
Bearer(token) == [scheme |-> "Bearer", token |-> token]
\* a header of another scheme that carries the token
Basic(token) == [scheme |-> "Basic", token |-> token]

\* authenticate taking the token whatever the scheme
authenticate_anyScheme(header, t) ==
  IF header.scheme = "none"
  THEN [status |-> 401, msg |-> "no-token", user |-> NoSubject]
  ELSE LET token == header.token
           v == verifyAccessToken(token, t)
       IN IF v # "ok"
          THEN [status |-> 401, msg |-> v, user |-> NoSubject]
          ELSE IF token.sub \notin DOMAIN users \/ ~users[token.sub].isActive
          THEN [status |-> 401, msg |-> "inactive", user |-> NoSubject]
          ELSE IF passwordChangedAfter(users[token.sub], token.iat)
          THEN [status |-> 401, msg |-> "password-changed", user |-> NoSubject]
          ELSE [status |-> 200, msg |-> "ok",
                user |-> [id |-> token.sub, role |-> token.role,
                          email |-> users[token.sub].email]]

\* authenticate without the look at isActive
authenticate_ignoreActive(header, t) ==
  IF header.scheme # "Bearer"
  THEN [status |-> 401, msg |-> "no-token", user |-> NoSubject]
  ELSE LET token == header.token
           v == verifyAccessToken(token, t)
       IN IF v # "ok"
          THEN [status |-> 401, msg |-> v, user |-> NoSubject]
          ELSE IF token.sub \notin DOMAIN users
          THEN [status |-> 401, msg |-> "inactive", user |-> NoSubject]
          ELSE IF passwordChangedAfter(users[token.sub], token.iat)
          THEN [status |-> 401, msg |-> "password-changed", user |-> NoSubject]
          ELSE [status |-> 200, msg |-> "ok",
                user |-> [id |-> token.sub, role |-> token.role,
                          email |-> users[token.sub].email]]

\* authenticate: the verdict and, when it passes, req.user
authenticate(header, t) ==
  IF header.scheme # "Bearer"
  THEN [status |-> 401, msg |-> "no-token", user |-> NoSubject]
  ELSE LET token == header.token
           v == verifyAccessToken(token, t)
       IN IF v # "ok"
          THEN [status |-> 401, msg |-> v, user |-> NoSubject]
          ELSE IF token.sub \notin DOMAIN users \/ ~users[token.sub].isActive
          THEN [status |-> 401, msg |-> "inactive", user |-> NoSubject]
          ELSE IF passwordChangedAfter(users[token.sub], token.iat)
          THEN [status |-> 401, msg |-> "password-changed", user |-> NoSubject]
          ELSE [status |-> 200, msg |-> "ok",
                user |-> [id |-> token.sub, role |-> token.role,
                          email |-> users[token.sub].email]]

\* authorize letting every authenticated subject through
authorize_anyRole(allowedRoles, user) ==
  IF user = NoSubject THEN 401 ELSE 200

\* authorize(...allowedRoles)
authorize(allowedRoles, user) ==
  IF user = NoSubject THEN 401
  ELSE IF user.role \notin allowedRoles THEN 403
  ELSE 200

-----------------------------------------------------------------------------
(* authRateLimit: middleware/security.js over express-rate-limit *)

Ips == {"ip1", "ip2"}

\* usernames a client may type; validateLoginInput normalises them
LoginNames ==
  {"admin@example.com", "lead@example.com", "dev@example.com", "DEV@example.com",
   "ghost@example.com"}

normalizeEmail(name) == IF name = "DEV@example.com" THEN "dev@example.com" ELSE name

\* keyGenerator
rateKey(ip, username) == <<ip, username>>

\* the limiter opening a new window at every hit
rateIncrement_restart(hit, t) == [count |-> 1, resetTime |-> t + authWindowMs]

\* one more hit on a key: a new window once the old one has run out; a key
\* over the limit stays over it until its window ends
rateIncrement(hit, t) ==
  IF t >= hit.resetTime THEN [count |-> 1, resetTime |-> t + authWindowMs]
  ELSE IF hit.count > authMax THEN hit
  ELSE [hit EXCEPT !.count = @ + 1]

-----------------------------------------------------------------------------
(* Responses *)

\* The last request and its answer.  op: the endpoint; subject: req.user;
\* token: the credential presented; target: the record addressed; issued: the
\* tokens in the body; data: the ids of the records in the body
Response(op, status, msg, subject, token, target, issued, data) ==
  [op |-> op, status |-> status, msg |-> msg, subject |-> subject,
   token |-> token, target |-> target, issued |-> issued, data |-> data]

NoResponse == Response("none", 0, "-", NoSubject, GarbageToken, NullId, {}, {})

\* a route's middleware chain: authenticate, then authorize(...allowedRoles)
protect(header, allowedRoles, t) ==
  LET a == authenticate(header, t)
  IN IF a.status # 200 THEN a
     ELSE IF authorize(allowedRoles, a.user) # 200
     THEN [status |-> 403, msg |-> "forbidden", user |-> a.user]
     ELSE a

findByLogin(username) ==
  {id \in DOMAIN users : users[id].username = username \/ users[id].email = username}

\* POST /auth/login: authRateLimit, validateLoginInput, login
login(ip, rawName, password) ==
  LET key == rateKey(ip, rawName)
      hit == rateIncrement(rateHits[key], now)
      username == normalizeEmail(rawName)
      found == findByLogin(username)
      reply(status, msg, target, issued) ==
        Response("login", status, msg, NoSubject, GarbageToken, target, issued, {})
  IN /\ rateHits' = [rateHits EXCEPT ![key] = hit]
     /\ UNCHANGED <<projects, documents, messages, config, client, inflight, now>>
     /\ IF hit.count > authMax
        THEN /\ resp' = reply(429, "rate-limited", NullId, {})
             /\ UNCHANGED <<users, tokens>>
        ELSE IF found = {}
        THEN /\ resp' = reply(401, "invalid", NullId, {})
             /\ UNCHANGED <<users, tokens>>
        ELSE LET id == CHOOSE i \in found : TRUE
                 user == users[id]
                 accessToken == generateAccessToken(id, user.role, now)
             IN IF isLocked(user, now)
                THEN /\ resp' = reply(403, "locked", id, {})
                     /\ UNCHANGED <<users, tokens>>
                ELSE IF ~user.isActive
                THEN /\ resp' = reply(403, "deactivated", id, {})
                     /\ UNCHANGED <<users, tokens>>
                ELSE IF ~verifyPassword(user, password)
                THEN /\ users' = [users EXCEPT ![id] = incLoginAttempts(user, now)]
                     /\ resp' = reply(401, "invalid", id, {})
                     /\ UNCHANGED tokens
                ELSE IF user.mfaEnabled
                THEN /\ tokens' = tokens \cup {accessToken}
                     /\ resp' = reply(200, "mfa-required", id, {accessToken})
                     /\ UNCHANGED users
                ELSE /\ users' = [users EXCEPT ![id] = resetLoginAttempts(user, now)]
                     /\ tokens' = tokens \cup {accessToken, generateRefreshToken(id, now)}
                     /\ resp' = reply(200, "ok", id,
                                      {accessToken, generateRefreshToken(id, now)})

\* refreshToken rotating the refresh token: the presented one is withdrawn and
\* a new one handed out with the access token
refreshToken_rotating(token) ==
  LET v == verifyRefreshToken(token, now)
      reply(status, msg, issued) ==
        Response("refreshToken", status, msg, NoSubject, token, token.sub, issued, {})
  IN /\ UNCHANGED <<users, projects, documents, messages, rateHits, config, client, inflight, now>>
     /\ IF v # "ok" \/ token \notin tokens
        THEN /\ resp' = reply(401, v, {})
             /\ UNCHANGED tokens
        ELSE IF token.sub \notin DOMAIN users \/ ~users[token.sub].isActive
        THEN /\ resp' = reply(401, "inactive", {})
             /\ UNCHANGED tokens
        ELSE LET issued == {generateAccessToken(token.sub, users[token.sub].role, now),
                            generateRefreshToken(token.sub, now)}
             IN /\ tokens' = (tokens \ {token}) \cup issued
                /\ resp' = reply(200, "ok", issued)

\* POST /auth/refresh-token
refreshToken(token) ==
  LET v == verifyRefreshToken(token, now)
      reply(status, msg, issued) ==
        Response("refreshToken", status, msg, NoSubject, token, token.sub, issued, {})
  IN /\ UNCHANGED <<users, projects, documents, messages, rateHits, config, client, inflight, now>>
     /\ IF v # "ok"
        THEN /\ resp' = reply(401, v, {})
             /\ UNCHANGED tokens
        ELSE IF token.sub \notin DOMAIN users \/ ~users[token.sub].isActive
        THEN /\ resp' = reply(401, "inactive", {})
             /\ UNCHANGED tokens
        ELSE LET newAccessToken ==
                   generateAccessToken(token.sub, users[token.sub].role, now)
             IN /\ tokens' = tokens \cup {newAccessToken}
                /\ resp' = reply(200, "ok", {newAccessToken})

\* POST /auth/logout: authenticate, logout
logout(header) ==
  LET a == authenticate(header, now)
  IN /\ UNCHANGED <<users, projects, documents, messages, tokens, rateHits, config, client, inflight, now>>
     /\ resp' = IF a.status # 200
                THEN Response("logout", a.status, a.msg, a.user, header.token, NullId, {}, {})
                ELSE Response("logout", 200, "ok", a.user, header.token, NullId, {}, {})

\* GET /auth/me: authenticate, getCurrentUser
getCurrentUser(header) ==
  LET a == authenticate(header, now)
  IN /\ UNCHANGED <<users, projects, documents, messages, tokens, rateHits, config, client, inflight, now>>
     /\ resp' = IF a.status # 200
                THEN Response("me", a.status, a.msg, a.user, header.token, NullId, {}, {})
                ELSE Response("me", 200, "ok", a.user, header.token, a.user.id, {},
                              {a.user.id})

\* passwords the schema's minlength: 8 turns away
TooShort == {"short"}

\* changePassword with the save moved ahead of the old-password check
changePassword_saveFirst(header, oldPassword, newPassword, confirmPassword) ==
  LET a == authenticate(header, now)
      reply(status, msg) ==
        Response("changePassword", status, msg, a.user, header.token, a.user.id, {}, {})
  IN /\ UNCHANGED <<projects, documents, messages, tokens, rateHits, config, client, inflight, now>>
     /\ IF a.status # 200
        THEN resp' = reply(a.status, a.msg) /\ UNCHANGED users
        ELSE IF newPassword # confirmPassword
        THEN resp' = reply(400, "mismatch") /\ UNCHANGED users
        ELSE IF newPassword \in TooShort
        THEN resp' = reply(500, "error") /\ UNCHANGED users
        ELSE /\ users' = [users EXCEPT ![a.user.id] = setPassword(@, newPassword, now)]
             /\ resp' = IF ~verifyPassword(users[a.user.id], oldPassword)
                        THEN reply(401, "old-incorrect")
                        ELSE reply(200, "ok")

\* PUT /auth/change-password: authenticate, changePassword
changePassword(header, oldPassword, newPassword, confirmPassword) ==
  LET a == authenticate(header, now)
      reply(status, msg) ==
        Response("changePassword", status, msg, a.user, header.token, a.user.id, {}, {})
  IN /\ UNCHANGED <<projects, documents, messages, tokens, rateHits, config, client, inflight, now>>
     /\ IF a.status # 200
        THEN resp' = reply(a.status, a.msg) /\ UNCHANGED users
        ELSE IF newPassword # confirmPassword
        THEN resp' = reply(400, "mismatch") /\ UNCHANGED users
        ELSE IF ~verifyPassword(users[a.user.id], oldPassword)
        THEN resp' = reply(401, "old-incorrect") /\ UNCHANGED users
        ELSE IF newPassword \in TooShort
        THEN resp' = reply(500, "error") /\ UNCHANGED users
        ELSE /\ users' = [users EXCEPT ![a.user.id] = setPassword(@, newPassword, now)]
             /\ resp' = reply(200, "ok")

-----------------------------------------------------------------------------
(* The clock *)

-----------------------------------------------------------------------------
(* User management: routes/userRoutes.js, controllers/userController.js *)

\* ids MongoDB may give to a new user
NewUserIds == {"u1"}

\* a new User document as pre('save') leaves it
newUser(username, password, role, t) ==
  [username |-> username, email |-> username, password |-> Hash(password),
   role |-> role, isActive |-> TRUE, lastLogin |-> NullDate, mfaEnabled |-> FALSE,
   passwordChangedAt |-> t, loginAttempts |-> 0, lockUntil |-> NullDate]

\* GET /users
listUsers(header, role) ==
  LET g == protect(header, {"admin"}, now)
      filter(id) == role \in Roles => users[id].role = role
  IN /\ UNCHANGED <<users, projects, documents, messages, tokens, rateHits, config, client, inflight, now>>
     /\ resp' = IF g.status # 200
                THEN Response("listUsers", g.status, g.msg, g.user, header.token,
                              NullId, {}, {})
                ELSE Response("listUsers", 200, "ok", g.user, header.token, NullId, {},
                              {id \in DOMAIN users : filter(id)})

\* GET /users/:id
getUser(header, id) ==
  LET g == protect(header, {"admin"}, now)
      reply(status, msg, data) ==
        Response("getUser", status, msg, g.user, header.token, id, {}, data)
  IN /\ UNCHANGED <<users, projects, documents, messages, tokens, rateHits, config, client, inflight, now>>
     /\ resp' = IF g.status # 200 THEN reply(g.status, g.msg, {})
                ELSE IF id \notin DOMAIN users THEN reply(404, "not-found", {})
                ELSE reply(200, "ok", {id})

\* POST /users
createUser(header, username, password, role) ==
  LET g == protect(header, {"admin"}, now)
      reply(status, msg, target) ==
        Response("createUser", status, msg, g.user, header.token, target, {}, {})
  IN /\ UNCHANGED <<projects, documents, messages, tokens, rateHits, config, client, inflight, now>>
     /\ IF g.status # 200
        THEN resp' = reply(g.status, g.msg, NullId) /\ UNCHANGED users
        ELSE IF findByLogin(username) # {}
        THEN resp' = reply(409, "exists", NullId) /\ UNCHANGED users
        ELSE \E id \in NewUserIds \ DOMAIN users :
               /\ users' = [i \in DOMAIN users \cup {id} |->
                              IF i = id THEN newUser(username, password, role, now)
                              ELSE users[i]]
               /\ resp' = reply(201, "created", id)

\* a field a request body leaves out
Unset == "-"

\* PUT /users/:id; body carries role and isActive, each possibly left out
updateUser(header, id, role, isActive) ==
  LET g == protect(header, {"admin"}, now)
      reply(status, msg) ==
        Response("updateUser", status, msg, g.user, header.token, id, {}, {})
  IN /\ UNCHANGED <<projects, documents, messages, tokens, rateHits, config, client, inflight, now>>
     /\ IF g.status # 200
        THEN resp' = reply(g.status, g.msg) /\ UNCHANGED users
        ELSE IF id \notin DOMAIN users
        THEN resp' = reply(404, "not-found") /\ UNCHANGED users
        ELSE /\ users' = [users EXCEPT
                            ![id].role = IF role \in Roles THEN role ELSE @,
                            ![id].isActive = IF isActive = Unset THEN @
                                             ELSE isActive = "true"]
             /\ resp' = reply(200, "ok")

\* DELETE /users/:id
deleteUser(header, id) ==
  LET g == protect(header, {"admin"}, now)
      reply(status, msg) ==
        Response("deleteUser", status, msg, g.user, header.token, id, {}, {})
  IN /\ UNCHANGED <<projects, documents, messages, tokens, rateHits, config, client, inflight, now>>
     /\ IF g.status # 200
        THEN resp' = reply(g.status, g.msg) /\ UNCHANGED users
        ELSE IF g.user.id = id
        THEN resp' = reply(400, "self") /\ UNCHANGED users
        ELSE IF id \notin DOMAIN users
        THEN resp' = reply(404, "not-found") /\ UNCHANGED users
        ELSE /\ users' = [i \in DOMAIN users \ {id} |-> users[i]]
             /\ resp' = reply(200, "ok")

\* POST /users/:id/reset-password
resetUserPassword(header, id, tempPassword) ==
  LET g == protect(header, {"admin"}, now)
      reply(status, msg) ==
        Response("resetUserPassword", status, msg, g.user, header.token, id, {}, {})
  IN /\ UNCHANGED <<projects, documents, messages, tokens, rateHits, config, client, inflight, now>>
     /\ IF g.status # 200
        THEN resp' = reply(g.status, g.msg) /\ UNCHANGED users
        ELSE IF tempPassword \in TooShort
        THEN resp' = reply(400, "too-short") /\ UNCHANGED users
        ELSE IF id \notin DOMAIN users
        THEN resp' = reply(404, "not-found") /\ UNCHANGED users
        ELSE /\ users' = [users EXCEPT ![id] = setPassword(@, tempPassword, now)]
             /\ resp' = reply(200, "ok")

\* PATCH /users/:id/deactivate
deactivateUser(header, id) ==
  LET g == protect(header, {"admin"}, now)
      reply(status, msg) ==
        Response("deactivateUser", status, msg, g.user, header.token, id, {}, {})
  IN /\ UNCHANGED <<projects, documents, messages, tokens, rateHits, config, client, inflight, now>>
     /\ IF g.status # 200
        THEN resp' = reply(g.status, g.msg) /\ UNCHANGED users
        ELSE IF g.user.id = id
        THEN resp' = reply(400, "self") /\ UNCHANGED users
        ELSE IF id \notin DOMAIN users
        THEN resp' = reply(404, "not-found") /\ UNCHANGED users
        ELSE /\ users' = [users EXCEPT ![id].isActive = FALSE]
             /\ resp' = reply(200, "ok")

\* GET /users/assignable: the active developers, for admins and project leads
assignable(header) ==
  LET g == protect(header, {"admin", "project-lead"}, now)
  IN /\ UNCHANGED <<users, projects, documents, messages, tokens, rateHits, config, client, inflight, now>>
     /\ resp' = IF g.status # 200
                THEN Response("assignable", g.status, g.msg, g.user, header.token,
                              NullId, {}, {})
                ELSE Response("assignable", 200, "ok", g.user, header.token, NullId, {},
                              {id \in DOMAIN users :
                                 users[id].role = "developer" /\ users[id].isActive})

-----------------------------------------------------------------------------
(* Projects: routes/projectRoutes.js, controllers/projectController.js *)

\* ids MongoDB may give to the projects
ProjectNames == <<"p1", "p2", "p3", "p4">>

\* a list field a request body leaves out
NoList == {Unset}

\* getId over a populated reference: null when the user is gone
populated(project) ==
  [project EXCEPT
     !.createdBy = IF @ \in DOMAIN users THEN @ ELSE NullId,
     !.projectLead = IF @ \in DOMAIN users THEN @ ELSE NullId,
     !.assignedDevelopers = @ \cap DOMAIN users]

\* hasProjectAccess letting a developer read any project
hasProjectAccess_anyDeveloper(user, project) ==
  \/ user.role = "admin"
  \/ user.role = "project-lead"
       /\ (project.projectLead = user.id \/ project.createdBy = user.id)
  \/ user.role = "developer"

hasProjectAccess(user, project) ==
  \/ user.role = "admin"
  \/ user.role = "project-lead"
       /\ (project.projectLead = user.id \/ project.createdBy = user.id)
  \/ user.role = "developer" /\ user.id \in project.assignedDevelopers

\* canModifyProject letting a project lead modify any project
canModifyProject_anyLead(user, project) ==
  \/ user.role = "admin"
  \/ user.role = "project-lead"

canModifyProject(user, project) ==
  \/ user.role = "admin"
  \/ user.role = "project-lead"
       /\ (project.projectLead = user.id \/ project.createdBy = user.id)

\* GET /projects
listProjects(header) ==
  LET g == protect(header, Roles, now)
      filter(id) ==
        IF g.user.role = "developer" THEN g.user.id \in projects[id].assignedDevelopers
        ELSE IF g.user.role = "project-lead"
        THEN projects[id].projectLead = g.user.id \/ projects[id].createdBy = g.user.id
        ELSE TRUE
  IN /\ UNCHANGED <<users, projects, documents, messages, tokens, rateHits, config, client, inflight, now>>
     /\ resp' = IF g.status # 200
                THEN Response("listProjects", g.status, g.msg, g.user, header.token,
                              NullId, {}, {})
                ELSE Response("listProjects", 200, "ok", g.user, header.token, NullId,
                              {}, {id \in DOMAIN projects : filter(id)})

\* GET /projects/:id
getProject(header, id) ==
  LET g == protect(header, Roles, now)
      reply(status, msg, data) ==
        Response("getProject", status, msg, g.user, header.token, id, {}, data)
  IN /\ UNCHANGED <<users, projects, documents, messages, tokens, rateHits, config, client, inflight, now>>
     /\ resp' = IF g.status # 200 THEN reply(g.status, g.msg, {})
                ELSE IF id \notin DOMAIN projects THEN reply(404, "not-found", {})
                ELSE IF ~hasProjectAccess(g.user, populated(projects[id]))
                THEN reply(403, "no-access", {})
                ELSE reply(200, "ok", {id})

\* the lead a body names is a user with the role admin or project-lead
validLead(projectLead) ==
  projectLead \in DOMAIN users /\ users[projectLead].role \in {"admin", "project-lead"}

\* every user a body assigns is a user with the role developer
validDevelopers(assignedDevelopers) ==
  \A d \in assignedDevelopers : d \in DOMAIN users /\ users[d].role = "developer"

\* POST /projects
createProject(header, name, projectLead, assignedDevelopers) ==
  LET g == protect(header, {"admin", "project-lead"}, now)
      reply(status, msg, target) ==
        Response("createProject", status, msg, g.user, header.token, target, {}, {})
      lead == IF projectLead # Unset THEN projectLead ELSE g.user.id
      newProject ==
        [name |-> name, status |-> "active", createdBy |-> g.user.id,
         projectLead |-> lead,
         assignedDevelopers |-> IF assignedDevelopers # NoList THEN assignedDevelopers
                                ELSE {},
         lastModifiedBy |-> g.user.id]
  IN /\ UNCHANGED <<users, documents, messages, tokens, rateHits, config, client, inflight, now>>
     /\ IF g.status # 200
        THEN resp' = reply(g.status, g.msg, NullId) /\ UNCHANGED projects
        ELSE IF projectLead # Unset /\ ~validLead(projectLead)
        THEN resp' = reply(400, "invalid-lead", NullId) /\ UNCHANGED projects
        ELSE IF assignedDevelopers # NoList /\ ~validDevelopers(assignedDevelopers)
        THEN resp' = reply(400, "not-developers", NullId) /\ UNCHANGED projects
        ELSE IF ~validLead(lead)
        THEN resp' = reply(400, "validation", NullId) /\ UNCHANGED projects
        ELSE \E i \in 1..Len(ProjectNames) :
               /\ ProjectNames[i] \notin DOMAIN projects
               /\ \A j \in 1..(i - 1) : ProjectNames[j] \in DOMAIN projects
               /\ projects' = [k \in DOMAIN projects \cup {ProjectNames[i]} |->
                                 IF k = ProjectNames[i] THEN newProject ELSE projects[k]]
               /\ resp' = reply(201, "created", ProjectNames[i])

ProjectStatuses == {"active", "completed", "on-hold", "cancelled"}

\* PUT /projects/:id
updateProject(header, id, name, status, projectLead, assignedDevelopers) ==
  LET g == protect(header, {"admin", "project-lead"}, now)
      reply(st, msg) ==
        Response("updateProject", st, msg, g.user, header.token, id, {}, {})
  IN /\ UNCHANGED <<users, documents, messages, tokens, rateHits, config, client, inflight, now>>
     /\ IF g.status # 200
        THEN resp' = reply(g.status, g.msg) /\ UNCHANGED projects
        ELSE IF id \notin DOMAIN projects
        THEN resp' = reply(404, "not-found") /\ UNCHANGED projects
        ELSE IF ~canModifyProject(g.user, projects[id])
        THEN resp' = reply(403, "no-permission") /\ UNCHANGED projects
        ELSE IF projectLead # Unset /\ ~validLead(projectLead)
        THEN resp' = reply(400, "invalid-lead") /\ UNCHANGED projects
        ELSE IF assignedDevelopers # NoList /\ ~validDevelopers(assignedDevelopers)
        THEN resp' = reply(400, "not-developers") /\ UNCHANGED projects
        ELSE /\ projects' = [projects EXCEPT
               ![id].lastModifiedBy = g.user.id,
               ![id].name = IF name # Unset THEN name ELSE @,
               ![id].status = IF status \in ProjectStatuses THEN status ELSE @,
               ![id].projectLead = IF projectLead # Unset THEN projectLead ELSE @,
               ![id].assignedDevelopers =
                  IF assignedDevelopers # NoList THEN assignedDevelopers ELSE @]
             /\ resp' = reply(200, "ok")

\* DELETE /projects/:id
deleteProject(header, id) ==
  LET g == protect(header, {"admin"}, now)
      reply(status, msg) ==
        Response("deleteProject", status, msg, g.user, header.token, id, {}, {})
  IN /\ UNCHANGED <<users, documents, messages, tokens, rateHits, config, client, inflight, now>>
     /\ IF g.status # 200
        THEN resp' = reply(g.status, g.msg) /\ UNCHANGED projects
        ELSE IF id \notin DOMAIN projects
        THEN resp' = reply(404, "not-found") /\ UNCHANGED projects
        ELSE IF g.user.role # "admin"
        THEN resp' = reply(403, "admin-only") /\ UNCHANGED projects
        ELSE /\ projects' = [k \in DOMAIN projects \ {id} |-> projects[k]]
             /\ resp' = reply(200, "ok")

-----------------------------------------------------------------------------
(* Messages: routes/messageRoutes.js, controllers/messageController.js *)

\* ids MongoDB may give to the messages
MessageNames == <<"m1", "m2", "m3", "m4">>

MessageTypes ==
  {"message", "completion-request", "completion-approved", "completion-rejected"}

\* the access rule letting a project lead into every project
messageAccess_anyLead(user, project) ==
  \/ user.role = "admin"
  \/ user.role = "project-lead"
  \/ user.role = "developer" /\ user.id \in project.assignedDevelopers

\* the controller's own copy of the project access rule
messageAccess(user, project) ==
  \/ user.role = "admin"
  \/ user.role = "project-lead"
       /\ (project.projectLead = user.id \/ project.createdBy = user.id)
  \/ user.role = "developer" /\ user.id \in project.assignedDevelopers

\* pendingRequest looking among the reviewed requests
pendingRequest_reviewed(projectId) ==
  {m \in DOMAIN messages :
     /\ messages[m].project = projectId
     /\ messages[m].type = "completion-request"
     /\ messages[m].reviewedBy # NullId}

\* Message.findOne({project, type: 'completion-request', reviewedBy: null})
pendingRequest(projectId) ==
  {m \in DOMAIN messages :
     /\ messages[m].project = projectId
     /\ messages[m].type = "completion-request"
     /\ messages[m].reviewedBy = NullId}

\* GET /messages/project/:projectId
getProjectMessages(header, projectId) ==
  LET g == protect(header, Roles, now)
      reply(status, msg, data) ==
        Response("getProjectMessages", status, msg, g.user, header.token, projectId,
                 {}, data)
  IN /\ UNCHANGED <<users, projects, documents, messages, tokens, rateHits, config, client, inflight, now>>
     /\ resp' = IF g.status # 200 THEN reply(g.status, g.msg, {})
                ELSE IF projectId \notin DOMAIN projects THEN reply(404, "not-found", {})
                ELSE IF ~messageAccess(g.user, projects[projectId])
                THEN reply(403, "no-access", {})
                ELSE reply(200, "ok",
                           {m \in DOMAIN messages : messages[m].project = projectId})

\* POST /messages/project/:projectId
sendMessage(header, projectId, content, type) ==
  LET g == protect(header, Roles, now)
      reply(status, msg, target) ==
        Response("sendMessage", status, msg, g.user, header.token, target, {}, {})
      message == [project |-> projectId, sender |-> g.user.id, content |-> content,
                  type |-> type, reviewedBy |-> NullId]
  IN /\ UNCHANGED <<users, projects, documents, tokens, rateHits, config, client, inflight, now>>
     /\ IF g.status # 200
        THEN resp' = reply(g.status, g.msg, NullId) /\ UNCHANGED messages
        ELSE IF content = ""
        THEN resp' = reply(400, "no-content", NullId) /\ UNCHANGED messages
        ELSE IF projectId \notin DOMAIN projects
        THEN resp' = reply(404, "not-found", NullId) /\ UNCHANGED messages
        ELSE IF ~messageAccess(g.user, projects[projectId])
        THEN resp' = reply(403, "no-access", NullId) /\ UNCHANGED messages
        ELSE IF type = "completion-request" /\ g.user.role # "developer"
        THEN resp' = reply(403, "developers-only", NullId) /\ UNCHANGED messages
        ELSE IF type = "completion-request" /\ pendingRequest(projectId) # {}
        THEN resp' = reply(400, "pending", NullId) /\ UNCHANGED messages
        ELSE IF type \notin MessageTypes
        THEN resp' = reply(500, "error", NullId) /\ UNCHANGED messages
        ELSE \E i \in 1..Len(MessageNames) :
               /\ MessageNames[i] \notin DOMAIN messages
               /\ \A j \in 1..(i - 1) : MessageNames[j] \in DOMAIN messages
               /\ messages' = [k \in DOMAIN messages \cup {MessageNames[i]} |->
                                 IF k = MessageNames[i] THEN message ELSE messages[k]]
               /\ resp' = reply(201, "sent", MessageNames[i])

\* POST /messages/:messageId/review
reviewCompletionRequest(header, messageId, approved) ==
  LET g == protect(header, {"admin", "project-lead"}, now)
      reply(status, msg) ==
        Response("reviewCompletionRequest", status, msg, g.user, header.token,
                 messageId, {}, {})
      project == messages[messageId].project
  IN /\ UNCHANGED <<users, documents, tokens, rateHits, config, client, inflight, now>>
     /\ IF g.status # 200
        THEN resp' = reply(g.status, g.msg) /\ UNCHANGED <<messages, projects>>
        ELSE IF messageId \notin DOMAIN messages
        THEN resp' = reply(404, "not-found") /\ UNCHANGED <<messages, projects>>
        ELSE IF messages[messageId].type # "completion-request"
        THEN resp' = reply(400, "not-a-request") /\ UNCHANGED <<messages, projects>>
        ELSE IF messages[messageId].reviewedBy # NullId
        THEN resp' = reply(400, "reviewed") /\ UNCHANGED <<messages, projects>>
        ELSE IF project \notin DOMAIN projects /\ g.user.role # "admin"
        THEN resp' = reply(500, "error") /\ UNCHANGED <<messages, projects>>
        ELSE IF project \in DOMAIN projects /\ ~messageAccess(g.user, projects[project])
        THEN resp' = reply(403, "no-access") /\ UNCHANGED <<messages, projects>>
        ELSE /\ messages' = [messages EXCEPT
                  ![messageId].reviewedBy = g.user.id,
                  ![messageId].type = IF approved THEN "completion-approved"
                                      ELSE "completion-rejected"]
             /\ projects' = IF approved /\ project \in DOMAIN projects
                            THEN [projects EXCEPT ![project].status = "completed",
                                                  ![project].lastModifiedBy = g.user.id]
                            ELSE projects
             /\ resp' = reply(200, "ok")

\* GET /messages/completion-requests
getPendingCompletionRequests(header) ==
  LET g == protect(header, {"admin", "project-lead"}, now)
      userProjects ==
        {p \in DOMAIN projects :
           projects[p].projectLead = g.user.id \/ projects[p].createdBy = g.user.id}
      requests ==
        {m \in DOMAIN messages :
           /\ g.user.role = "project-lead" => messages[m].project \in userProjects
           /\ messages[m].type = "completion-request"
           /\ messages[m].reviewedBy = NullId}
  IN /\ UNCHANGED <<users, projects, documents, messages, tokens, rateHits, config, client, inflight, now>>
     /\ resp' = IF g.status # 200
                THEN Response("getPendingCompletionRequests", g.status, g.msg, g.user,
                              header.token, NullId, {}, {})
                ELSE Response("getPendingCompletionRequests", 200, "ok", g.user,
                              header.token, NullId, {}, requests)

-----------------------------------------------------------------------------
(* Documents: routes/documentRoutes.js, controllers/documentController.js *)

\* ids MongoDB may give to the documents
DocumentNames == <<"d1", "d2", "d3">>

\* what a client attaches: an allowed file, nothing, or a file with an
\* extension outside config.allowedFileTypes
Files == {"pdf", "none", "exe"}

\* canAccessProject recognising a project lead only as projectLead, not as creator
canAccessProject_leadOnly(user, project) ==
  \/ user.role = "admin"
  \/ user.role = "project-lead" /\ project.projectLead = user.id
  \/ user.role = "developer" /\ user.id \in project.assignedDevelopers

canAccessProject(user, project) ==
  \/ user.role = "admin"
  \/ user.role = "project-lead"
       /\ (project.projectLead = user.id \/ project.createdBy = user.id)
  \/ user.role = "developer" /\ user.id \in project.assignedDevelopers

canUploadToProject(user, project) ==
  \/ user.role = "admin"
  \/ user.role = "project-lead"
       /\ (project.projectLead = user.id \/ project.createdBy = user.id)

\* canAccessDocument going by the access list alone
canAccessDocument_listOnly(user, document) ==
  \E access \in document.accessibleBy : access.userId = user.id

\* canAccessDocument recomputing access from the project's present team
canAccessDocument_byTeam(user, document) ==
  \/ user.role = "admin"
  \/ \E access \in document.accessibleBy : access.userId = user.id
  \/ /\ document.project \in DOMAIN projects
     /\ user.id \in projects[document.project].assignedDevelopers

canAccessDocument(user, document) ==
  \/ user.role = "admin"
  \/ \E access \in document.accessibleBy : access.userId = user.id

\* the access list leaving the project's lead out
accessibleBy_developersOnly(project) ==
  {[userId |-> d, role |-> "developer"] : d \in project.assignedDevelopers}

\* the access list uploadDocument builds: the project's lead and its developers
accessibleBy(project) ==
  (IF project.projectLead # NullId
   THEN {[userId |-> project.projectLead, role |-> "project-lead"]} ELSE {})
  \cup {[userId |-> d, role |-> "developer"] : d \in project.assignedDevelopers}

\* logAccess keeping the newest entry only
logAccess_latestOnly(document, userId, action) ==
  [document EXCEPT !.accessLog = <<[userId |-> userId, action |-> action]>>]

\* documentSchema.methods.logAccess
logAccess(document, userId, action) ==
  [document EXCEPT !.accessLog = Append(@, [userId |-> userId, action |-> action])]

\* GET /documents/project/:projectId
listProjectDocuments(header, projectId) ==
  LET g == protect(header, Roles, now)
      reply(status, msg, data) ==
        Response("listProjectDocuments", status, msg, g.user, header.token, projectId,
                 {}, data)
      all == g.user.role = "admin"
               \/ (g.user.role = "project-lead"
                     /\ (projects[projectId].projectLead = g.user.id
                           \/ projects[projectId].createdBy = g.user.id))
      visible(d) ==
        /\ documents[d].project = projectId
        /\ all \/ \E access \in documents[d].accessibleBy : access.userId = g.user.id
  IN /\ UNCHANGED <<users, projects, documents, messages, tokens, rateHits, config, client, inflight, now>>
     /\ resp' = IF g.status # 200 THEN reply(g.status, g.msg, {})
                ELSE IF projectId \notin DOMAIN projects THEN reply(404, "not-found", {})
                ELSE IF ~canAccessProject(g.user, projects[projectId])
                THEN reply(403, "no-access", {})
                ELSE reply(200, "ok", {d \in DOMAIN documents : visible(d)})

\* POST /documents/project/:projectId
uploadDocument(header, projectId, file, cloudinaryUp) ==
  LET g == protect(header, {"admin", "project-lead"}, now)
      reply(status, msg, target) ==
        Response("uploadDocument", status, msg, g.user, header.token, target, {}, {})
      document == [project |-> projectId, uploadedBy |-> g.user.id,
                   accessibleBy |-> accessibleBy(projects[projectId]),
                   classification |-> "internal", accessLog |-> << >>]
  IN /\ UNCHANGED <<users, projects, messages, tokens, rateHits, config, client, inflight, now>>
     /\ IF g.status # 200
        THEN resp' = reply(g.status, g.msg, NullId) /\ UNCHANGED documents
        ELSE IF file = "none"
        THEN resp' = reply(400, "no-file", NullId) /\ UNCHANGED documents
        ELSE IF projectId \notin DOMAIN projects
        THEN resp' = reply(404, "not-found", NullId) /\ UNCHANGED documents
        ELSE IF ~canUploadToProject(g.user, projects[projectId])
        THEN resp' = reply(403, "no-permission", NullId) /\ UNCHANGED documents
        ELSE IF file # "pdf"
        THEN resp' = reply(400, "bad-file", NullId) /\ UNCHANGED documents
        ELSE IF ~cloudinaryUp
        THEN resp' = reply(500, "storage", NullId) /\ UNCHANGED documents
        ELSE \E i \in 1..Len(DocumentNames) :
               /\ DocumentNames[i] \notin DOMAIN documents
               /\ \A j \in 1..(i - 1) : DocumentNames[j] \in DOMAIN documents
               /\ documents' = [k \in DOMAIN documents \cup {DocumentNames[i]} |->
                                  IF k = DocumentNames[i] THEN document ELSE documents[k]]
               /\ resp' = reply(201, "uploaded", DocumentNames[i])

\* the shared course of viewDocument and downloadDocument
readDocument(op, action, success, header, id) ==
  LET g == protect(header, Roles, now)
      reply(status, msg, data) ==
        Response(op, status, msg, g.user, header.token, id, {}, data)
  IN /\ UNCHANGED <<users, projects, messages, tokens, rateHits, config, client, inflight, now>>
     /\ IF g.status # 200
        THEN resp' = reply(g.status, g.msg, {}) /\ UNCHANGED documents
        ELSE IF id \notin DOMAIN documents
        THEN resp' = reply(404, "not-found", {}) /\ UNCHANGED documents
        ELSE IF ~canAccessDocument(g.user, documents[id])
        THEN resp' = reply(403, "no-access", {}) /\ UNCHANGED documents
        ELSE /\ documents' = [documents EXCEPT ![id] = logAccess(@, g.user.id, action)]
             /\ resp' = reply(success, "ok", {id})

\* GET /documents/:id
viewDocument(header, id) == readDocument("viewDocument", "viewed", 200, header, id)

\* GET /documents/:id/download, answered with a redirect to the stored file
downloadDocument(header, id) ==
  readDocument("downloadDocument", "downloaded", 302, header, id)

\* the classifications updateDocument lets through
allowedClassifications == {"public", "internal", "confidential", "restricted"}

\* the classifications documentSchema's enum takes on save
classificationEnum == {"public", "internal", "confidential", "secret"}

\* an accessibleBy field a request body leaves out
NoAccessList == {[userId |-> Unset, role |-> Unset]}

\* PUT /documents/:id
updateDocument(header, id, classification, newAccessibleBy) ==
  LET g == protect(header, {"admin", "project-lead"}, now)
      reply(status, msg) ==
        Response("updateDocument", status, msg, g.user, header.token, id, {}, {})
  IN /\ UNCHANGED <<users, projects, messages, tokens, rateHits, config, client, inflight, now>>
     /\ IF g.status # 200
        THEN resp' = reply(g.status, g.msg) /\ UNCHANGED documents
        ELSE IF id \notin DOMAIN documents
        THEN resp' = reply(404, "not-found") /\ UNCHANGED documents
        ELSE IF documents[id].project \notin DOMAIN projects
        THEN resp' = reply(404, "no-project") /\ UNCHANGED documents
        ELSE IF ~canUploadToProject(g.user, projects[documents[id].project])
        THEN resp' = reply(403, "no-permission") /\ UNCHANGED documents
        ELSE IF classification # Unset /\ classification \notin allowedClassifications
        THEN resp' = reply(400, "bad-classification") /\ UNCHANGED documents
        ELSE IF classification # Unset /\ classification \notin classificationEnum
        THEN resp' = reply(500, "error") /\ UNCHANGED documents
        ELSE /\ documents' = [documents EXCEPT
                  ![id].classification = IF classification # Unset THEN classification
                                         ELSE @,
                  ![id].accessibleBy = IF newAccessibleBy # NoAccessList THEN newAccessibleBy
                                       ELSE @]
             /\ resp' = reply(200, "ok")

\* deleteDocument letting every project lead delete
deleteDocument_anyLead(header, id) ==
  LET g == protect(header, Roles, now)
      reply(status, msg) ==
        Response("deleteDocument", status, msg, g.user, header.token, id, {}, {})
      allowed == \/ g.user.role \in {"admin", "project-lead"}
                 \/ documents[id].uploadedBy = g.user.id
  IN /\ UNCHANGED <<users, projects, messages, tokens, rateHits, config, client, inflight, now>>
     /\ IF g.status # 200
        THEN resp' = reply(g.status, g.msg) /\ UNCHANGED documents
        ELSE IF id \notin DOMAIN documents
        THEN resp' = reply(404, "not-found") /\ UNCHANGED documents
        ELSE IF ~allowed
        THEN resp' = reply(403, "no-permission") /\ UNCHANGED documents
        ELSE /\ documents' = [k \in DOMAIN documents \ {id} |-> documents[k]]
             /\ resp' = reply(200, "ok")

\* DELETE /documents/:id
deleteDocument(header, id) ==
  LET g == protect(header, Roles, now)
      reply(status, msg) ==
        Response("deleteDocument", status, msg, g.user, header.token, id, {}, {})
      document == documents[id]
      isAdmin == g.user.role = "admin"
      isUploader == document.uploadedBy = g.user.id
      isAssignedProjectLead ==
        /\ g.user.role = "project-lead"
        /\ document.project \in DOMAIN projects
        /\ \/ projects[document.project].projectLead = g.user.id
           \/ projects[document.project].createdBy = g.user.id
  IN /\ UNCHANGED <<users, projects, messages, tokens, rateHits, config, client, inflight, now>>
     /\ IF g.status # 200
        THEN resp' = reply(g.status, g.msg) /\ UNCHANGED documents
        ELSE IF id \notin DOMAIN documents
        THEN resp' = reply(404, "not-found") /\ UNCHANGED documents
        ELSE IF ~isAdmin /\ ~isUploader /\ ~isAssignedProjectLead
        THEN resp' = reply(403, "no-permission") /\ UNCHANGED documents
        ELSE /\ documents' = [k \in DOMAIN documents \ {id} |-> documents[k]]
             /\ resp' = reply(200, "ok")

\* the store's timer drops a key once its window has run out
rateExpire(hits, t) ==
  [k \in DOMAIN hits |->
     IF t >= hits[k].resetTime THEN [count |-> 0, resetTime |-> 0] ELSE hits[k]]

Tick(d, limit) ==
  /\ now + d <= limit
  /\ now' = now + d
  /\ rateHits' = rateExpire(rateHits, now + d)
  /\ UNCHANGED <<users, projects, documents, messages, tokens, config, client, inflight, resp>>

-----------------------------------------------------------------------------
(* The seeded database: utils/seedDatabase.js, saved at time 0 *)

\* A browser that has not logged in and has sent nothing.
NoClient ==
  [localStorage |-> [accessToken |-> Unset, refreshToken |-> Unset],
   location |-> "/", requests |-> << >>]

DEMO_USERS ==
  [admin |-> newUser("admin@example.com", "Admin123!@#", "admin", 0),
   lead  |-> newUser("lead@example.com", "Lead123!@#", "project-lead", 0),
   dev   |-> newUser("dev@example.com", "Dev123!@#", "developer", 0)]

Init ==
  /\ users = DEMO_USERS
  /\ projects = << >>
  /\ documents = << >>
  /\ messages = << >>
  /\ tokens = {}
  /\ rateHits = [k \in Ips \X LoginNames |-> [count |-> 0, resetTime |-> 0]]
  /\ config = [secret |-> "access-secret", refreshSecret |-> "refresh-secret"]
  /\ now = 0
  /\ resp = NoResponse
  /\ inflight = << >>
  /\ client = NoClient

-----------------------------------------------------------------------------
(* Lockout and rate limiting: logins against the clock *)

LockLogin ==
  \E ip \in Ips, p \in {"Dev123!@#", "wrong"} :
    login(ip, "dev@example.com", p) /\ Cardinality(tokens') <= MaxTokens

LockTick == \E d \in {authWindowMs, lockTime} : Tick(d, MaxSlots * authWindowMs)

NextLock == LockLogin \/ LockTick

SpecLock == Init /\ [][NextLock]_vars

-----------------------------------------------------------------------------
(* Token lifecycle: logins, password changes and resets, and requests that
   present the tokens issued so far, on a clock with sub-second steps *)

MaxTokTokens == 4
MaxTokSlots == 1
HalfSecond == MsPerSecond \div 2

Passwords == {"Dev123!@#", "NewPass4!"}
Headers == {Bearer(tok) : tok \in tokens} \cup {NoHeader, Bearer(GarbageToken)}

TokLogin ==
  \E p \in Passwords :
    login("ip1", "dev@example.com", p) /\ Cardinality(tokens') <= MaxTokTokens

\* old, new and confirmation as a client may send them
PasswordForms ==
  {<<"Dev123!@#", "NewPass4!", "NewPass4!">>, <<"NewPass4!", "Dev123!@#", "Dev123!@#">>,
   <<"Dev123!@#", "NewPass4!", "Dev123!@#">>, <<"Dev123!@#", "short", "short">>}

TokChange ==
  \E h \in Headers, f \in PasswordForms : changePassword(h, f[1], f[2], f[3])

TokMe == \E h \in Headers : getCurrentUser(h)

TokRefresh ==
  \E tok \in tokens \cup {GarbageToken} :
    refreshToken(tok) /\ Cardinality(tokens') <= MaxTokTokens

TokTick ==
  \/ now % MsPerSecond = 0 /\ Tick(HalfSecond, MaxTokSlots * authWindowMs + HalfSecond)
  \/ Tick(authWindowMs, MaxTokSlots * authWindowMs + HalfSecond)

NextTok == TokLogin \/ TokChange \/ TokMe \/ TokRefresh \/ TokTick

SpecTok == Init /\ [][NextTok]_vars

-----------------------------------------------------------------------------
(* User management: an admin and a developer log in and send the
   user-management requests, with every token issued so far or with none *)

MaxUserTokens == 3
MaxUserLogins == 2
MaxUserSlots == 1

UserLogin ==
  \E f \in {<<"admin@example.com", "Admin123!@#">>, <<"dev@example.com", "Dev123!@#">>} :
    /\ login("ip1", f[1], f[2])
    /\ Cardinality(tokens') <= MaxUserTokens
    /\ rateHits'[rateKey("ip1", f[1])].count <= MaxUserLogins

\* the Authorization headers a client holding the issued tokens may send
AccessHeaders == {Bearer(tok) : tok \in {k \in tokens : k.type = "access"}} \cup {NoHeader}

UserList == \E h \in AccessHeaders : listUsers(h, "developer")

UserGet == \E h \in AccessHeaders : getUser(h, "dev")

UserCreate == \E h \in AccessHeaders : createUser(h, "new@example.com", "NewPass4!", "developer")

\* role and isActive as an update may carry them
UpdateForms == {<<"developer", Unset>>, <<Unset, "false">>, <<"admin", "true">>}

UserUpdate ==
  \E h \in AccessHeaders, id \in {"admin", "dev"}, f \in UpdateForms :
    updateUser(h, id, f[1], f[2])

UserDelete == \E h \in AccessHeaders, id \in {"admin", "dev"} : deleteUser(h, id)

UserDeactivate == \E h \in AccessHeaders, id \in {"admin", "dev"} : deactivateUser(h, id)

UserReset ==
  \E h \in AccessHeaders, p \in {"NewPass4!", "short"} : resetUserPassword(h, "dev", p)

UserTick == Tick(authWindowMs, MaxUserSlots * authWindowMs)

NextUsers ==
  \/ UserLogin \/ UserList \/ UserGet \/ UserCreate \/ UserUpdate
  \/ UserDelete \/ UserDeactivate \/ UserReset \/ UserTick

SpecUsers == Init /\ [][NextUsers]_vars

-----------------------------------------------------------------------------
(* Projects: the three seeded users log in and send the project requests *)

MaxProjects == 1
MaxLogins == 1

SeedLogins ==
  {<<"admin@example.com", "Admin123!@#">>, <<"lead@example.com", "Lead123!@#">>,
   <<"dev@example.com", "Dev123!@#">>}

ProjectIds == {ProjectNames[i] : i \in 1..MaxProjects}

ProjLogin ==
  \E f \in SeedLogins :
    /\ login("ip1", f[1], f[2])
    /\ rateHits'[rateKey("ip1", f[1])].count <= MaxLogins

ProjList == \E h \in AccessHeaders : listProjects(h)

ProjGet == \E h \in AccessHeaders, id \in ProjectIds : getProject(h, id)

\* projectLead and assignedDevelopers as a new project may carry them
NewProjectForms ==
  {<<Unset, NoList>>, <<"lead", {"dev"}>>, <<"admin", NoList>>, <<"dev", NoList>>,
   <<Unset, {"lead"}>>}

ProjCreate ==
  \E h \in AccessHeaders, f \in NewProjectForms :
    createProject(h, "alpha", f[1], f[2]) /\ Cardinality(DOMAIN projects') <= MaxProjects

\* name, status, projectLead and assignedDevelopers as an update may carry them
ProjectForms ==
  {<<"beta", "on-hold", Unset, NoList>>, <<Unset, Unset, "lead", NoList>>,
   <<Unset, Unset, "admin", {"dev"}>>, <<Unset, Unset, "dev", NoList>>,
   <<Unset, Unset, Unset, {}>>}

ProjUpdate ==
  \E h \in AccessHeaders, id \in ProjectIds, f \in ProjectForms :
    updateProject(h, id, f[1], f[2], f[3], f[4])

ProjDelete == \E h \in AccessHeaders, id \in ProjectIds : deleteProject(h, id)

\* an admin changes the role of the seeded developer or of the seeded lead
ProjRole ==
  \E h \in AccessHeaders, f \in {<<"dev", "project-lead">>, <<"lead", "developer">>} :
    updateUser(h, f[1], f[2], Unset)

NextProj ==
  \/ ProjLogin \/ ProjList \/ ProjGet \/ ProjCreate \/ ProjUpdate \/ ProjDelete
  \/ ProjRole

SpecProj == Init /\ [][NextProj]_vars

-----------------------------------------------------------------------------
(* Completion requests: the seeded users log in, a project is set up, and
   messages are sent and reviewed *)

MaxMsgProjects == 1
MaxMessages == 3

MsgLogin ==
  \E f \in SeedLogins :
    /\ login("ip1", f[1], f[2])
    /\ rateHits'[rateKey("ip1", f[1])].count <= MaxLogins

MsgCreate ==
  \E h \in AccessHeaders, f \in {<<"lead", {"dev"}>>, <<Unset, {"dev"}>>} :
    /\ createProject(h, "alpha", f[1], f[2])
    /\ Cardinality(DOMAIN projects') <= MaxMsgProjects

MsgSend ==
  \E h \in AccessHeaders, id \in DOMAIN projects, c \in {"done", ""},
     t \in {"completion-request", "message"} :
    sendMessage(h, id, c, t) /\ Cardinality(DOMAIN messages') <= MaxMessages

MsgReview ==
  \E h \in AccessHeaders, m \in DOMAIN messages, approved \in BOOLEAN :
    reviewCompletionRequest(h, m, approved)

MsgList == \E h \in AccessHeaders, id \in DOMAIN projects : getProjectMessages(h, id)

NextMsg == MsgLogin \/ MsgCreate \/ MsgSend \/ MsgReview \/ MsgList

SpecMsg == Init /\ [][NextMsg]_vars

-----------------------------------------------------------------------------
(* Documents and reading: the admin and the seeded developer log in; the admin
   adds a second developer, sets up projects and uploads; both read *)

MaxDocProjects == 2
MaxDocuments == 1
MaxLog == 1

DocLogin ==
  \E f \in {<<"admin@example.com", "Admin123!@#">>, <<"dev@example.com", "Dev123!@#">>} :
    /\ login("ip1", f[1], f[2])
    /\ rateHits'[rateKey("ip1", f[1])].count <= MaxLogins

DocCreateUser ==
  \E h \in AccessHeaders : createUser(h, "dev2@example.com", "NewPass4!", "developer")

DocCreate ==
  \E h \in AccessHeaders, f \in {<<"lead", {"dev", "u1"}>>, <<"lead", {"u1"}>>,
                                 <<Unset, NoList>>} :
    /\ createProject(h, "alpha", f[1], f[2])
    /\ Cardinality(DOMAIN projects') <= MaxDocProjects

\* the attachment, and whether the cloud storage takes it
UploadForms == {<<f, TRUE>> : f \in Files} \cup {<<"pdf", FALSE>>}

DocUpload ==
  \E h \in AccessHeaders, id \in DOMAIN projects, f \in UploadForms :
    /\ uploadDocument(h, id, f[1], f[2])
    /\ Cardinality(DOMAIN documents') <= MaxDocuments

DocView ==
  \E h \in AccessHeaders, d \in DOMAIN documents :
    viewDocument(h, d) /\ Len(documents'[d].accessLog) <= MaxLog

DocDownload ==
  \E h \in AccessHeaders, d \in DOMAIN documents :
    downloadDocument(h, d) /\ Len(documents'[d].accessLog) <= MaxLog

DocList == \E h \in AccessHeaders, id \in DOMAIN projects : listProjectDocuments(h, id)

DocProjects ==
  \E h \in AccessHeaders :
    \/ listProjects(h)
    \/ \E id \in DOMAIN projects : getProject(h, id)
    \/ \E id \in DOMAIN projects : getProjectMessages(h, id)

NextDoc ==
  \/ DocLogin \/ DocCreateUser \/ DocCreate \/ DocUpload \/ DocView \/ DocDownload
  \/ DocList \/ DocProjects

SpecDoc == Init /\ [][NextDoc]_vars

-----------------------------------------------------------------------------
(* Teams and documents: the seeded users log in; a project is set up and a
   document uploaded; the team and the lead change, the document's access list
   is edited, and the document is read *)

MaxTeamProjects == 1
MaxTeamDocuments == 1

TeamLogin ==
  \E f \in SeedLogins :
    /\ login("ip1", f[1], f[2])
    /\ rateHits'[rateKey("ip1", f[1])].count <= MaxLogins

TeamCreate ==
  \E h \in AccessHeaders, f \in {<<"lead", NoList>>, <<Unset, NoList>>} :
    /\ createProject(h, "alpha", f[1], f[2])
    /\ Cardinality(DOMAIN projects') <= MaxTeamProjects

TeamUpload ==
  \E h \in AccessHeaders, id \in DOMAIN projects :
    /\ uploadDocument(h, id, "pdf", TRUE)
    /\ Cardinality(DOMAIN documents') <= MaxTeamDocuments

\* projectLead and assignedDevelopers as a change of team may carry them
TeamForms == {<<Unset, {"dev"}>>, <<"admin", NoList>>, <<Unset, {}>>}

TeamUpdate ==
  \E h \in AccessHeaders, id \in DOMAIN projects, f \in TeamForms :
    updateProject(h, id, Unset, Unset, f[1], f[2])

\* classification and accessibleBy as an update of a document may carry them
DocumentForms ==
  {<<Unset, {[userId |-> "dev", role |-> "developer"]}>>,
   <<"restricted", NoAccessList>>}

TeamUpdateDoc ==
  \E h \in AccessHeaders, d \in DOMAIN documents, f \in DocumentForms :
    updateDocument(h, d, f[1], f[2])

TeamView ==
  \E h \in AccessHeaders, d \in DOMAIN documents :
    /\ \/ viewDocument(h, d)
       \/ downloadDocument(h, d)
    /\ Len(documents'[d].accessLog) <= MaxLog

NextTeam ==
  \/ TeamLogin \/ TeamCreate \/ TeamUpload \/ TeamUpdate \/ TeamUpdateDoc \/ TeamView

SpecTeam == Init /\ [][NextTeam]_vars

-----------------------------------------------------------------------------
(* Deletion: the seeded users log in; a project is set up, documents are
   uploaded, the lead changes, and documents and the project are deleted *)

RemoveDoc == \E h \in AccessHeaders, d \in DOMAIN documents : deleteDocument(h, d)

RemoveProject == \E h \in AccessHeaders, id \in DOMAIN projects : deleteProject(h, id)

RemoveLead ==
  \E h \in AccessHeaders, id \in DOMAIN projects :
    updateProject(h, id, Unset, Unset, "admin", NoList)

NextRemove ==
  \/ TeamLogin \/ TeamCreate \/ TeamUpload \/ RemoveLead \/ RemoveDoc \/ RemoveProject

SpecRemove == Init /\ [][NextRemove]_vars

-----------------------------------------------------------------------------
(* Deactivation: the admin and the seeded developer log in, and so does a
   name that has no account; the admin deactivates and reactivates the
   developer; the tokens issued so far are presented *)

ActiveLogin ==
  \E f \in {<<"admin@example.com", "Admin123!@#">>, <<"dev@example.com", "Dev123!@#">>,
            <<"dev@example.com", "wrong">>, <<"ghost@example.com", "wrong">>} :
    /\ login("ip1", f[1], f[2])
    /\ rateHits'[rateKey("ip1", f[1])].count <= MaxUserLogins

ActiveDeactivate == \E h \in AccessHeaders : deactivateUser(h, "dev")

ActiveUpdate ==
  \E h \in AccessHeaders, isActive \in {"true", "false"} :
    updateUser(h, "dev", Unset, isActive)

ActiveMe == \E h \in AccessHeaders : getCurrentUser(h)

ActiveRefresh == \E tok \in tokens : refreshToken(tok)

ActiveRequest ==
  \E h \in AccessHeaders :
    \/ listProjects(h)
    \/ changePassword(h, "Dev123!@#", "NewPass4!", "NewPass4!")

NextActive ==
  \/ ActiveLogin \/ ActiveDeactivate \/ ActiveUpdate \/ ActiveMe \/ ActiveRefresh
  \/ ActiveRequest

SpecActive == Init /\ [][NextActive]_vars

-----------------------------------------------------------------------------
(* The gate: the admin logs in and sets up a project with a document; the
   clock runs past the access token's expiry; every protected route is
   requested with the headers authenticate is there to turn away *)

MaxGateSlots == 1

GateLogin ==
  /\ login("ip1", "admin@example.com", "Admin123!@#")
  /\ Cardinality(tokens') <= MaxTokens

\* no header, a token that is no JWT, and each issued token under the Bearer
\* scheme and under another scheme
GateHeaders ==
  {NoHeader, Bearer(GarbageToken)}
    \cup {Bearer(tok) : tok \in tokens} \cup {Basic(tok) : tok \in tokens}

\* the header is one authenticate lets through as far as the token goes
wellFormed(h) == h.scheme = "Bearer" /\ verifyAccessToken(h.token, now) = "ok"

\* every route behind authenticate, requested with header h
Protected(h) ==
  \/ logout(h) \/ getCurrentUser(h)
  \/ changePassword(h, "Dev123!@#", "NewPass4!", "NewPass4!")
  \/ assignable(h) \/ listUsers(h, "developer") \/ getUser(h, "dev")
  \/ createUser(h, "new@example.com", "NewPass4!", "developer")
  \/ updateUser(h, "dev", "project-lead", Unset)
  \/ deleteUser(h, "lead") \/ deactivateUser(h, "lead")
  \/ resetUserPassword(h, "lead", "NewPass4!")
  \/ listProjects(h) \/ getProject(h, "p1")
  \/ createProject(h, "alpha", "lead", {"dev"}) /\ DOMAIN projects' \subseteq {"p1"}
  \/ updateProject(h, "p1", "beta", Unset, Unset, NoList)
  \/ deleteProject(h, "p1")
  \/ listProjectDocuments(h, "p1")
  \/ uploadDocument(h, "p1", "pdf", TRUE) /\ DOMAIN documents' \subseteq {"d1"}
  \/ viewDocument(h, "d1") \/ downloadDocument(h, "d1")
  \/ updateDocument(h, "d1", "confidential", NoAccessList)
  \/ deleteDocument(h, "d1")
  \/ getProjectMessages(h, "p1")
  \/ sendMessage(h, "p1", "done", "completion-request") /\ DOMAIN messages' \subseteq {"m1"}
  \/ getPendingCompletionRequests(h)
  \/ reviewCompletionRequest(h, "m1", TRUE)

\* the requests that set the scene, sent with the tokens as issued
GateSetup ==
  \E h \in AccessHeaders :
    \/ createProject(h, "alpha", "lead", {"dev"}) /\ DOMAIN projects' \subseteq {"p1"}
    \/ uploadDocument(h, "p1", "pdf", TRUE) /\ DOMAIN documents' \subseteq {"d1"}

\* every protected route, requested with a header that is not a Bearer header
\* with a verifiable access token
GateRequest == \E h \in GateHeaders : ~wellFormed(h) /\ Protected(h)

GateTick == Tick(authWindowMs, MaxGateSlots * authWindowMs)

NextGate == GateLogin \/ GateSetup \/ GateRequest \/ GateTick

SpecGate == Init /\ [][NextGate]_vars

-----------------------------------------------------------------------------
(* Refreshing: the seeded developer logs in and presents the tokens to the
   refresh endpoint while the days go by, past the refresh token's expiry *)

MaxRefreshDays == 8
DayMs == 24 * 60 * 60 * MsPerSecond

RefreshLogin ==
  /\ login("ip1", "dev@example.com", "Dev123!@#")
  /\ Cardinality(tokens') <= MaxTokTokens

RefreshRequest ==
  \E tok \in tokens : refreshToken(tok) /\ Cardinality(tokens') <= MaxTokTokens

RefreshTick == Tick(DayMs, MaxRefreshDays * DayMs)

NextRefresh == RefreshLogin \/ RefreshRequest \/ RefreshTick

SpecRefresh == Init /\ [][NextRefresh]_vars

-----------------------------------------------------------------------------
(* The rate limiter: one client logs in under one name, with the right and a
   wrong secret, on a clock that moves in sixths of the limiter's window *)

MaxRateSteps == 8
RateStep == authWindowMs \div 6

RateLogin ==
  \E p \in {"Dev123!@#", "wrong"} : login("ip1", "dev@example.com", p)

RateTick == Tick(RateStep, MaxRateSteps * RateStep)

NextRate == RateLogin \/ RateTick

SpecRate == Init /\ [][NextRate]_vars

-----------------------------------------------------------------------------
(* Concurrent logins: login in the two steps its awaits cut it into, the
   findOne with the checks on the copy it returns, and the write that follows
   verifyPassword; other requests run between the two *)

MaxRaceSlots == 1
RaceIds == {"r1", "r2"}

\* the handlers that wait, without request r
finished(r) == [x \in DOMAIN inflight \ {r} |-> inflight[x]]

\* incLoginAttempts on the copy of the user the handler holds (this): updateOne
\* sends the update built from the copy and MongoDB applies it to the stored
\* document, $inc to the stored counter
incLoginAttemptsUpdate(this, stored, t) ==
  IF this.lockUntil # NullDate /\ this.lockUntil < t
  THEN [stored EXCEPT !.loginAttempts = 1, !.lockUntil = NullDate]
  ELSE IF this.loginAttempts + 1 >= maxAttempts
       THEN [stored EXCEPT !.loginAttempts = @ + 1, !.lockUntil = t + lockTime]
       ELSE [stored EXCEPT !.loginAttempts = @ + 1]

\* login up to `await user.verifyPassword(password)`: a request answered before
\* that is handled to completion, any other waits with its copy of the user
loginFind(r, ip, rawName, password) ==
  LET key == rateKey(ip, rawName)
      hit == rateIncrement(rateHits[key], now)
      found == findByLogin(normalizeEmail(rawName))
      id == CHOOSE i \in found : TRUE
  IN /\ r \notin DOMAIN inflight
     /\ IF \/ hit.count > authMax
           \/ found = {}
           \/ isLocked(users[id], now)
           \/ ~users[id].isActive
        THEN login(ip, rawName, password)
        ELSE /\ rateHits' = [rateHits EXCEPT ![key] = hit]
             /\ inflight' = inflight @@
                              (r :> [op |-> "login", id |-> id, user |-> users[id],
                                     password |-> password])
             /\ UNCHANGED <<users, projects, documents, messages, tokens, config, client,
                            now, resp>>

\* login from the answer of verifyPassword on: incLoginAttempts or
\* resetLoginAttempts on the copy, and the response
loginVerify(r) ==
  /\ r \in DOMAIN inflight
  /\ inflight[r].op = "login"
  /\ LET id == inflight[r].id
         user == inflight[r].user
         accessToken == generateAccessToken(id, user.role, now)
         reply(status, msg, issued) ==
           Response("login", status, msg, NoSubject, GarbageToken, id, issued, {})
     IN /\ inflight' = finished(r)
        /\ UNCHANGED <<projects, documents, messages, rateHits, config, client, now>>
        /\ IF ~verifyPassword(user, inflight[r].password)
           THEN /\ users' = [users EXCEPT
                               ![id] = incLoginAttemptsUpdate(user, @, now)]
                /\ resp' = reply(401, "invalid", {})
                /\ UNCHANGED tokens
           ELSE IF user.mfaEnabled
           THEN /\ tokens' = tokens \cup {accessToken}
                /\ resp' = reply(200, "mfa-required", {accessToken})
                /\ UNCHANGED users
           ELSE /\ users' = [users EXCEPT ![id] = resetLoginAttempts(@, now)]
                /\ tokens' = tokens \cup {accessToken, generateRefreshToken(id, now)}
                /\ resp' = reply(200, "ok", {accessToken, generateRefreshToken(id, now)})

RaceFind ==
  \E r \in RaceIds, ip \in Ips, p \in {"Dev123!@#", "wrong"} :
    loginFind(r, ip, "dev@example.com", p) /\ Cardinality(tokens') <= MaxTokens

RaceVerify == \E r \in RaceIds : loginVerify(r) /\ Cardinality(tokens') <= MaxTokens

RaceTick == Tick(lockTime, MaxRaceSlots * lockTime)

NextRace == RaceFind \/ RaceVerify \/ RaceTick

SpecRace == Init /\ [][NextRace]_vars

-----------------------------------------------------------------------------
(* Concurrent messages: sendMessage cut at `await message.save()` and
   reviewCompletionRequest cut at `await message.save()` and at
   `await Project.findByIdAndUpdate(...)`; other requests run at the cuts *)

MaxFlowMessages == 2
FlowIds == {"r1", "r2"}

\* the requests of one operation that wait
waiting(ops) == {r \in DOMAIN inflight : inflight[r].op \in ops}

\* sendMessage up to `await message.save()`: a request the checks turn away is
\* answered at once, any other waits with the message it has built
sendFind(r, header, projectId, content, type) ==
  LET g == protect(header, Roles, now)
      message == [project |-> projectId, sender |-> g.user.id, content |-> content,
                  type |-> type, reviewedBy |-> NullId]
  IN /\ r \notin DOMAIN inflight
     /\ IF \/ g.status # 200
           \/ content = ""
           \/ projectId \notin DOMAIN projects
           \/ ~messageAccess(g.user, projects[projectId])
           \/ type = "completion-request" /\ g.user.role # "developer"
           \/ type = "completion-request" /\ pendingRequest(projectId) # {}
           \/ type \notin MessageTypes
        THEN sendMessage(header, projectId, content, type)
        ELSE /\ inflight' = inflight @@
                              (r :> [op |-> "sendMessage", user |-> g.user,
                                     token |-> header.token, message |-> message])
             /\ UNCHANGED <<users, projects, documents, messages, tokens, rateHits,
                            config, client, now, resp>>

\* message.save() and the 201
sendSave(r) ==
  /\ r \in waiting({"sendMessage"})
  /\ \E i \in 1..Len(MessageNames) :
       /\ MessageNames[i] \notin DOMAIN messages
       /\ \A j \in 1..(i - 1) : MessageNames[j] \in DOMAIN messages
       /\ messages' = [k \in DOMAIN messages \cup {MessageNames[i]} |->
                         IF k = MessageNames[i] THEN inflight[r].message
                         ELSE messages[k]]
       /\ resp' = Response("sendMessage", 201, "sent", inflight[r].user,
                           inflight[r].token, MessageNames[i], {}, {})
  /\ inflight' = finished(r)
  /\ UNCHANGED <<users, projects, documents, tokens, rateHits, config, client, now>>

\* reviewCompletionRequest up to `await message.save()`: the role check, the
\* message and its checks, the project and the access check
reviewFind(r, header, messageId, approved) ==
  LET g == protect(header, {"admin", "project-lead"}, now)
      project == messages[messageId].project
  IN /\ r \notin DOMAIN inflight
     /\ IF \/ g.status # 200
           \/ messageId \notin DOMAIN messages
           \/ messages[messageId].type # "completion-request"
           \/ messages[messageId].reviewedBy # NullId
           \/ project \notin DOMAIN projects
           \/ ~messageAccess(g.user, projects[project])
        THEN reviewCompletionRequest(header, messageId, approved)
        ELSE /\ inflight' = inflight @@
                              (r :> [op |-> "reviewSave", user |-> g.user,
                                     token |-> header.token, messageId |-> messageId,
                                     approved |-> approved, project |-> project])
             /\ UNCHANGED <<users, projects, documents, messages, tokens, rateHits,
                            config, client, now, resp>>

\* message.save() of the review: the modified paths are written to the stored
\* message; a rejection is answered, an approval goes on to the project
reviewSave(r) ==
  /\ r \in waiting({"reviewSave"})
  /\ LET q == inflight[r]
     IN /\ messages' = [messages EXCEPT
               ![q.messageId].reviewedBy = q.user.id,
               ![q.messageId].type = IF q.approved THEN "completion-approved"
                                     ELSE "completion-rejected"]
        /\ IF q.approved
           THEN /\ inflight' = [inflight EXCEPT ![r].op = "reviewProject"]
                /\ UNCHANGED resp
           ELSE /\ inflight' = finished(r)
                /\ resp' = Response("reviewCompletionRequest", 200, "ok", q.user,
                                    q.token, q.messageId, {}, {})
  /\ UNCHANGED <<users, projects, documents, tokens, rateHits, config, client, now>>

\* Project.findByIdAndUpdate(message.project, {status: 'completed', ...}) of an
\* approval, and the 200
reviewProject(r) ==
  /\ r \in waiting({"reviewProject"})
  /\ LET q == inflight[r]
     IN /\ projects' = IF q.project \in DOMAIN projects
                       THEN [projects EXCEPT ![q.project].status = "completed",
                                             ![q.project].lastModifiedBy = q.user.id]
                       ELSE projects
        /\ resp' = Response("reviewCompletionRequest", 200, "ok", q.user, q.token,
                            q.messageId, {}, {})
  /\ inflight' = finished(r)
  /\ UNCHANGED <<users, documents, messages, tokens, rateHits, config, client, now>>

FlowLogin ==
  \E f \in SeedLogins :
    /\ login("ip1", f[1], f[2])
    /\ rateHits'[rateKey("ip1", f[1])].count <= MaxLogins

FlowCreate ==
  \E h \in AccessHeaders :
    /\ createProject(h, "alpha", "lead", {"dev"})
    /\ Cardinality(DOMAIN projects') <= MaxMsgProjects

FlowSend ==
  \E r \in FlowIds, h \in AccessHeaders, id \in DOMAIN projects,
     t \in {"completion-request", "completion-approved"} :
    /\ Cardinality(DOMAIN messages) + Cardinality(waiting({"sendMessage"}))
         < MaxFlowMessages
    /\ sendFind(r, h, id, "done", t)

FlowSave == \E r \in FlowIds : sendSave(r)

FlowReview ==
  \E r \in FlowIds, h \in AccessHeaders, m \in DOMAIN messages, approved \in BOOLEAN :
    reviewFind(r, h, m, approved)

FlowReviewSave == \E r \in FlowIds : reviewSave(r)

FlowReviewProject == \E r \in FlowIds : reviewProject(r)

NextFlow ==
  \/ FlowLogin \/ FlowCreate \/ FlowSend \/ FlowSave
  \/ FlowReview \/ FlowReviewSave \/ FlowReviewProject

SpecFlow == Init /\ [][NextFlow]_vars

-----------------------------------------------------------------------------
(* Removing users: the seeded users log in, a project is set up and a document
   uploaded to it, and the admin deletes users *)

PurgeUser == \E h \in AccessHeaders, id \in {"lead", "dev", "admin"} : deleteUser(h, id)

NextPurge == TeamLogin \/ TeamCreate \/ TeamUpload \/ PurgeUser

SpecPurge == Init /\ [][NextPurge]_vars

-----------------------------------------------------------------------------
(* Orphaned messages: a project with a completion request is deleted, and the
   request is reviewed afterwards *)

\* what the call hasProjectAccess(req.user, project) of reviewCompletionRequest
\* comes to, project being the answer of Project.findById(message.project):
\* null for a project that is gone, and project.projectLead on null throws
hasProjectAccessCall(user, projectId) ==
  IF user.role = "admin" THEN "true"
  ELSE IF projectId \notin DOMAIN projects THEN "TypeError"
  ELSE IF messageAccess(user, projects[projectId]) THEN "true"
  ELSE "false"

OrphanDelete == \E h \in AccessHeaders, id \in DOMAIN projects : deleteProject(h, id)

MaxOrphanMessages == 1

OrphanSend ==
  \E h \in AccessHeaders, id \in DOMAIN projects :
    /\ sendMessage(h, id, "done", "completion-request")
    /\ Cardinality(DOMAIN messages') <= MaxOrphanMessages

NextOrphan == MsgLogin \/ MsgCreate \/ OrphanSend \/ OrphanDelete \/ MsgReview

SpecOrphan == Init /\ [][NextOrphan]_vars

-----------------------------------------------------------------------------
(* Listing and reading: a document's access list is replaced, and the document
   is listed and read *)

ShelfList == \E h \in AccessHeaders, id \in DOMAIN projects : listProjectDocuments(h, id)

NextShelf ==
  TeamLogin \/ TeamCreate \/ TeamUpload \/ TeamUpdateDoc \/ TeamView \/ ShelfList

SpecShelf == Init /\ [][NextShelf]_vars

-----------------------------------------------------------------------------
(* Token kinds: the server starts under any configuration that validateConfig
   lets through, users log in, and every issued token is presented to
   authenticate and to the refresh endpoint *)

MaxKeyTokens == 4
MaxKeySlots == 1
minSecretLength == 32

\* values of JWT_SECRET and JWT_REFRESH_SECRET in the environment
Secrets ==
  {"0123456789abcdef0123456789abcdef", "fedcba9876543210fedcba9876543210", "changeme"}

\* validateConfig on config.jwt: each secret is set and has 32 characters or more
validateConfig(c) ==
  /\ Len(c.secret) >= minSecretLength
  /\ Len(c.refreshSecret) >= minSecretLength

InitKeys ==
  /\ users = DEMO_USERS
  /\ projects = << >>
  /\ documents = << >>
  /\ messages = << >>
  /\ tokens = {}
  /\ rateHits = [k \in Ips \X LoginNames |-> [count |-> 0, resetTime |-> 0]]
  /\ config \in {c \in [secret : Secrets, refreshSecret : Secrets] : validateConfig(c)}
  /\ now = 0
  /\ resp = NoResponse
  /\ inflight = << >>
  /\ client = NoClient

KeysLogin ==
  \E f \in SeedLogins :
    /\ login("ip1", f[1], f[2])
    /\ rateHits'[rateKey("ip1", f[1])].count <= MaxLogins
    /\ Cardinality(tokens') <= MaxKeyTokens

KeysMe == \E tok \in tokens \cup {GarbageToken} : getCurrentUser(Bearer(tok))

KeysRefresh ==
  \E tok \in tokens \cup {GarbageToken} :
    refreshToken(tok) /\ Cardinality(tokens') <= MaxKeyTokens

KeysTick == Tick(authWindowMs, MaxKeySlots * authWindowMs)

NextKeys == KeysLogin \/ KeysMe \/ KeysRefresh \/ KeysTick

SpecKeys == InitKeys /\ [][NextKeys]_vars

-----------------------------------------------------------------------------
(* The audit trail: a document is uploaded, its access list and classification
   are updated, and it is viewed and downloaded, by those on its list and by
   others *)

MaxAuditLog == 2

AuditRead ==
  \E h \in AccessHeaders, d \in DOMAIN documents :
    /\ \/ viewDocument(h, d)
       \/ downloadDocument(h, d)
    /\ Len(documents'[d].accessLog) <= MaxAuditLog

NextAudit == TeamLogin \/ TeamCreate \/ TeamUpload \/ TeamUpdateDoc \/ AuditRead

SpecAudit == Init /\ [][NextAudit]_vars

-----------------------------------------------------------------------------
(* Classification: a document is uploaded and its classification is updated
   with the values of the data model and with others *)

\* classification values a request body may carry
LabelValues == {"public", "internal", "confidential", "secret", "restricted", "bogus"}

LabelUpdate ==
  \E h \in AccessHeaders, d \in DOMAIN documents, c \in LabelValues :
    updateDocument(h, d, c, NoAccessList)

NextLabel == TeamLogin \/ TeamCreate \/ TeamUpload \/ LabelUpdate

SpecLabel == Init /\ [][NextLabel]_vars

-----------------------------------------------------------------------------
(* Second factor: the User collection holds the seeded users, the developer
   with mfaEnabled as the schema allows it, false or true; users log in and
   present what the login handed out *)

MaxMfaTokens == 3
MaxMfaSlots == 1

InitMfa ==
  /\ \E mfa \in BOOLEAN : users = [DEMO_USERS EXCEPT !["dev"].mfaEnabled = mfa]
  /\ projects = << >>
  /\ documents = << >>
  /\ messages = << >>
  /\ tokens = {}
  /\ rateHits = [k \in Ips \X LoginNames |-> [count |-> 0, resetTime |-> 0]]
  /\ config = [secret |-> "access-secret", refreshSecret |-> "refresh-secret"]
  /\ now = 0
  /\ resp = NoResponse
  /\ inflight = << >>
  /\ client = NoClient

MfaLogin ==
  \E f \in SeedLogins \cup {<<"dev@example.com", "wrong">>} :
    login("ip1", f[1], f[2]) /\ Cardinality(tokens') <= MaxMfaTokens

MfaMe == \E tok \in tokens \cup {GarbageToken} : getCurrentUser(Bearer(tok))

MfaTick == Tick(authWindowMs, MaxMfaSlots * authWindowMs)

NextMfa == MfaLogin \/ MfaMe \/ MfaTick

SpecMfa == InitMfa /\ [][NextMfa]_vars

-----------------------------------------------------------------------------
(* The browser's API client: the 401 interceptor of apiClient *)

ClientIds == {"q1", "q2"}

\* What the server may answer to a request or to the refresh call.
ClientStatuses == {200, 401, 500}

clearedStorage == [accessToken |-> Unset, refreshToken |-> Unset]

settled(q) ==
  q \in DOMAIN client.requests /\ client.requests[q].phase \in {"resolved", "rejected"}

\* apiClient(config): the request interceptor copies the stored access token
\* into the Authorization header and the request leaves the browser.
requestInterceptor(request, localStorage) ==
  [request EXCEPT !.phase = "sent", !.sends = @ + 1,
                  !.authorization = localStorage.accessToken]

newRequest ==
  [phase |-> "new", retry |-> FALSE, sends |-> 0, refreshCalls |-> 0,
   authorization |-> Unset, cause |-> Unset]

\* The catch block of the interceptor: forget everything, go to /login, reject.
refreshFailed(q, cause) ==
  client' = [client EXCEPT !.localStorage = clearedStorage,
                           !.location = "/login",
                           !.requests[q].retry = TRUE,
                           !.requests[q].phase = "rejected",
                           !.requests[q].cause = cause]

\* The response interceptor that never looks at _retry.
responseInterceptor_noRetryFlag(q, status) ==
  /\ q \in DOMAIN client.requests /\ client.requests[q].phase = "sent"
  /\ IF status = 200
       THEN client' = [client EXCEPT !.requests[q].phase = "resolved"]
     ELSE IF status = 401 /\ client.requests[q].refreshCalls < 3
       THEN IF client.localStorage.refreshToken = Unset
              THEN refreshFailed(q, "no-refresh-token")
              ELSE client' = [client EXCEPT !.requests[q].retry = TRUE,
                                            !.requests[q].phase = "refreshing",
                                            !.requests[q].refreshCalls = @ + 1]
     ELSE client' = [client EXCEPT !.requests[q].phase = "rejected",
                                   !.requests[q].cause = "error"]
  /\ UNCHANGED <<users, projects, documents, messages, tokens, rateHits, config,
                 now, resp, inflight>>

\* The answer to a request sent through apiClient reaches the interceptors.
responseInterceptor(q, status) ==
  /\ q \in DOMAIN client.requests /\ client.requests[q].phase = "sent"
  /\ IF status = 200
       THEN client' = [client EXCEPT !.requests[q].phase = "resolved"]
     ELSE IF status = 401 /\ ~client.requests[q].retry
       THEN IF client.localStorage.refreshToken = Unset
              THEN refreshFailed(q, "no-refresh-token")
              ELSE client' = [client EXCEPT !.requests[q].retry = TRUE,
                                            !.requests[q].phase = "refreshing",
                                            !.requests[q].refreshCalls = @ + 1]
     ELSE client' = [client EXCEPT !.requests[q].phase = "rejected",
                                   !.requests[q].cause = "error"]
  /\ UNCHANGED <<users, projects, documents, messages, tokens, rateHits, config,
                 now, resp, inflight>>

\* The answer to axios.post('/auth/refresh-token') arrives: on success the new
\* access token is stored and the original request is sent again through
\* apiClient, otherwise the catch block runs.
refreshAnswered(q, status) ==
  /\ q \in DOMAIN client.requests /\ client.requests[q].phase = "refreshing"
  /\ IF status = 200
       THEN LET stored == [client.localStorage EXCEPT !.accessToken = "refreshed"]
            IN  client' = [client EXCEPT
                  !.localStorage = stored,
                  !.requests[q] = requestInterceptor(@, stored)]
       ELSE refreshFailed(q, "refresh-failed")
  /\ UNCHANGED <<users, projects, documents, messages, tokens, rateHits, config,
                 now, resp, inflight>>

\* A page calls apiClient for the first time with this request.
ClientSend(q) ==
  /\ q \notin DOMAIN client.requests
  /\ client' = [client EXCEPT !.requests =
                  [x \in DOMAIN @ \cup {q} |->
                     IF x = q THEN requestInterceptor(newRequest, client.localStorage)
                     ELSE @[x]]]
  /\ UNCHANGED <<users, projects, documents, messages, tokens, rateHits, config,
                 now, resp, inflight>>

ClientResponse(q) == \E status \in ClientStatuses : responseInterceptor(q, status)

ClientRefreshAnswered(q) == \E status \in ClientStatuses : refreshAnswered(q, status)

\* authStore.logout once the logout call has settled: clearStorage().
ClientLogout ==
  /\ client.localStorage # clearedStorage
  /\ client' = [client EXCEPT !.localStorage = clearedStorage]
  /\ UNCHANGED <<users, projects, documents, messages, tokens, rateHits, config,
                 now, resp, inflight>>

\* The browser after a login: both tokens stored, or only the access token.
InitClient ==
  /\ users = DEMO_USERS
  /\ projects = << >>
  /\ documents = << >>
  /\ messages = << >>
  /\ tokens = {}
  /\ rateHits = [k \in Ips \X LoginNames |-> [count |-> 0, resetTime |-> 0]]
  /\ config = [secret |-> "access-secret", refreshSecret |-> "refresh-secret"]
  /\ now = 0
  /\ resp = NoResponse
  /\ inflight = << >>
  /\ \E rt \in {"stored", Unset} :
       client = [NoClient EXCEPT !.localStorage =
                   [accessToken |-> "stored", refreshToken |-> rt]]

NextClient ==
  \/ \E q \in ClientIds : ClientSend(q)
  \/ \E q \in ClientIds : ClientResponse(q)
  \/ \E q \in ClientIds : ClientRefreshAnswered(q)
  \/ ClientLogout

\* Every call that is on the wire is answered or fails: apiClient has a
\* timeout of 10 s, and the refresh call ends when the network does.
SpecClient ==
  /\ InitClient /\ [][NextClient]_vars
  /\ \A q \in ClientIds : WF_vars(ClientResponse(q)) /\ WF_vars(ClientRefreshAnswered(q))

-----------------------------------------------------------------------------
(* The claims *)

\* the rate limiter lets a login from ip under rawName through to the controller
Admitted(ip, rawName) ==
  rateIncrement(rateHits[rateKey(ip, rawName)], now).count <= authMax

\* The three steps of the lockout scenario for the seeded developer, as they are
\* seen on one login request: the fifth consecutive failure sets the lock, a
\* login under the lock gets the lock response and no tokens, and a login with
\* the correct secret after the lock has run out succeeds and resets.
LockoutSteps(ip, p, reaches) ==
  LET u == users["dev"]
  IN (login(ip, "dev@example.com", p) /\ u.isActive /\ reaches) =>
       /\ (p = "wrong" /\ ~isLocked(u, now) /\ u.lockUntil = NullDate
             /\ u.loginAttempts = maxAttempts - 1)
            => /\ users'["dev"].loginAttempts = maxAttempts
               /\ users'["dev"].lockUntil = now + lockTime
       /\ (u.loginAttempts >= maxAttempts /\ isLocked(u, now))
            => /\ resp'.status = 403 /\ resp'.msg = "locked"
               /\ tokens' = tokens
               /\ users' = users
       /\ (p = "Dev123!@#" /\ u.lockUntil # NullDate /\ now >= u.lockUntil)
            => /\ resp'.status = 200 /\ resp'.msg = "ok"
               /\ users'["dev"].loginAttempts = 0
               /\ users'["dev"].lockUntil = NullDate

C2_StaleAccessTokenRejected ==
  [][\A tok \in tokens :
       (/\ tok.type = "access" /\ tok.sub \in DOMAIN users
        /\ tok.at < users[tok.sub].passwordChangedAt
        /\ getCurrentUser(Bearer(tok)))
         => resp'.status = 401]_vars

\* C3: after a successful change-password the refresh-token endpoint rejects
\* every refresh token issued before the change and hands out no access token.
C3_StaleRefreshTokenRejected ==
  [][\A tok \in tokens :
       (/\ tok.type = "refresh" /\ tok.sub \in DOMAIN users
        /\ tok.at < users[tok.sub].passwordChangedAt
        /\ refreshToken(tok))
         => (resp'.status = 401 /\ resp'.issued = {} /\ tokens' = tokens)]_vars

\* C4: a user-management request by an admin that targets the admin's own
\* account and would change its role, deactivate it or delete it is rejected
\* with an error and leaves the admin's record unchanged.
C4_NoSelfEscalation ==
  [][\A h \in AccessHeaders :
       LET a == authenticate(h, now)
           self == a.user.id
           isAdmin == /\ a.status = 200 /\ a.user.role = "admin"
                      /\ users[self].role = "admin"
           rejected == /\ resp'.status >= 400
                       /\ self \in DOMAIN users' /\ users'[self] = users[self]
       IN /\ \A f \in UpdateForms :
               (/\ isAdmin
                /\ f[1] \in Roles \ {"admin"} \/ f[2] = "false"
                /\ updateUser(h, self, f[1], f[2])) => rejected
          /\ (isAdmin /\ deactivateUser(h, self)) => rejected
          /\ (isAdmin /\ deleteUser(h, self)) => rejected]_vars

UserOps ==
  {"listUsers", "getUser", "createUser", "updateUser", "deleteUser",
   "deactivateUser", "resetUserPassword"}

\* C8: a user-management operation executes only for a request whose subject
\* has the role admin; the same request from a project-lead or a developer is
\* answered 403 and creates, changes or deletes no user record; and a user
\* record comes into being only through createUser on an admin's request.
C8_UserManagementAdminOnly ==
  [][/\ (resp'.op \in UserOps /\ resp'.subject.role \in Roles \ {"admin"})
          => (resp'.status = 403 /\ users' = users)
     /\ (resp'.op \in UserOps /\ (resp'.status \in {200, 201} \/ users' # users))
          => resp'.subject.role = "admin"
     /\ (DOMAIN users' \ DOMAIN users # {})
          => /\ resp'.op = "createUser" /\ resp'.status = 201
             /\ resp'.subject.role = "admin"]_vars

\* a developer's user-management request, turned away with 403
C8_Witness ==
  /\ resp.op \in UserOps /\ resp.status = 403
  /\ resp.subject.role = "developer"

\* u is the creator or the lead of project p
owns(u, p) == u.id = projects[p].createdBy \/ u.id = projects[p].projectLead

\* the request answered in this step was sent by a subject with role r and
\* addressed an existing project
onProject(op, r) ==
  /\ resp'.op = op /\ resp'.subject.role = r
  /\ resp'.target \in DOMAIN projects

\* C5: a request whose subject is a developer d reads project p (getProject)
\* iff d is in p.assignedDevelopers; canModifyProject is false for a developer
\* and every project; and no request by a developer changes a project.
C5_DeveloperContainment ==
  [][/\ onProject("getProject", "developer")
          => /\ resp'.status \in {200, 403}
             /\ resp'.status = 200 <=>
                  resp'.subject.id \in projects[resp'.target].assignedDevelopers
     /\ \A u \in DOMAIN users, p \in DOMAIN projects :
          ~canModifyProject([id |-> u, role |-> "developer", email |-> users[u].email],
                            projects[p])
     /\ (resp'.op = "updateProject" /\ resp'.subject.role = "developer")
          => (resp'.status = 403 /\ projects' = projects)
     /\ projects' # projects => resp'.subject.role # "developer"]_vars

\* a developer who is not assigned to the project is refused its details
C5_Witness ==
  /\ resp.op = "getProject" /\ resp.status = 403
  /\ resp.subject.role = "developer"
  /\ resp.target \in DOMAIN projects
  /\ resp.subject.id \notin projects[resp.target].assignedDevelopers

\* C6: a request whose subject is a project lead u reads p and modifies p iff
\* u.id is p.createdBy or p.projectLead; an updateProject the rule denies is
\* answered 403 and leaves the project as it was.
C6_LeadOwnership ==
  [][/\ \A u \in DOMAIN users, p \in DOMAIN projects :
          LET lead == [id |-> u, role |-> "project-lead", email |-> users[u].email]
          IN /\ canModifyProject(lead, projects[p]) <=> owns(lead, p)
             /\ hasProjectAccess(lead, projects[p]) <=> owns(lead, p)
     /\ onProject("getProject", "project-lead")
          => /\ resp'.status \in {200, 403}
             /\ resp'.status = 200 <=> owns(resp'.subject, resp'.target)
     /\ onProject("updateProject", "project-lead")
          => /\ resp'.status = 403 <=> ~owns(resp'.subject, resp'.target)
             /\ resp'.status = 403 => projects' = projects]_vars

\* a project lead's update of a project of which the lead is neither creator
\* nor lead, refused with 403
C6_Witness ==
  /\ resp.op = "updateProject" /\ resp.status = 403
  /\ resp.subject.role = "project-lead"
  /\ resp.target \in DOMAIN projects
  /\ resp.subject.id \notin {projects[resp.target].createdBy,
                             projects[resp.target].projectLead}

ReadOps ==
  {"getProject", "listProjects", "getProjectMessages", "listProjectDocuments",
   "viewDocument", "downloadDocument"}

\* user u as a subject with the role admin
asAdmin(u) == [id |-> u, role |-> "admin", email |-> users[u].email]

\* C7: in every reachable store state every read and list request of a subject
\* with the role admin is allowed, for every project and every document, and
\* listProjects returns all the projects to an admin.
C7_AdminSupremacy ==
  [][/\ \A u \in DOMAIN users :
          /\ \A p \in DOMAIN projects :
               /\ hasProjectAccess(asAdmin(u), populated(projects[p]))
               /\ messageAccess(asAdmin(u), projects[p])
               /\ canAccessProject(asAdmin(u), projects[p])
          /\ \A d \in DOMAIN documents : canAccessDocument(asAdmin(u), documents[d])
     /\ (resp'.op \in ReadOps /\ resp'.subject.role = "admin")
          => resp'.status = IF resp'.op = "downloadDocument" THEN 302 ELSE 200
     /\ (resp'.op = "listProjects" /\ resp'.subject.role = "admin")
          => resp'.data = DOMAIN projects
     /\ (resp'.op = "listProjectDocuments" /\ resp'.subject.role = "admin")
          => resp'.data = {d \in DOMAIN documents : documents[d].project = resp'.target}]_vars

\* the users on a document's access list
listed(d) == {access.userId : access \in documents[d].accessibleBy}

\* an admin who is not on a document's access list has viewed the document
C7_Witness ==
  /\ resp.op = "viewDocument" /\ resp.status = 200
  /\ resp.subject.role = "admin"
  /\ resp.target \in DOMAIN documents
  /\ resp.subject.id \notin listed(resp.target)

\* the completion requests of a project that nobody has reviewed
outstanding(projectId) ==
  {m \in DOMAIN messages :
     /\ messages[m].project = projectId
     /\ messages[m].type = "completion-request"
     /\ messages[m].reviewedBy = NullId}

\* the reviewed completion requests of a project
reviewedRequest(projectId) ==
  {m \in DOMAIN messages :
     /\ messages[m].project = projectId
     /\ messages[m].type \in {"completion-approved", "completion-rejected"}
     /\ messages[m].reviewedBy # NullId}

\* C9: while a project has a completion-request with no reviewedBy, a further
\* completion-request for the project is rejected and creates no message; once
\* that request has been reviewed, approved or rejected, a new completion-request
\* by a developer of the project succeeds and is the one outstanding.
C9_SingleOutstandingRequest ==
  [][\A h \in AccessHeaders, p \in DOMAIN projects :
       LET d == authenticate(h, now).user
       IN sendMessage(h, p, "done", "completion-request") =>
            /\ outstanding(p) # {}
                 => (resp'.status >= 400 /\ messages' = messages)
            /\ (/\ outstanding(p) = {} /\ reviewedRequest(p) # {}
                /\ d.role = "developer" /\ d.id \in projects[p].assignedDevelopers)
                 => /\ resp'.status = 201
                    /\ resp'.target \notin DOMAIN messages
                    /\ messages'[resp'.target].type = "completion-request"
                    /\ messages'[resp'.target].reviewedBy = NullId
                    /\ messages'[resp'.target].project = p]_vars

\* a project with a reviewed request and a new outstanding one, and a further
\* request just turned away
C9_Witness ==
  /\ resp.op = "sendMessage" /\ resp.status = 400 /\ resp.msg = "pending"
  /\ \E p \in DOMAIN projects : reviewedRequest(p) # {} /\ outstanding(p) # {}

C11_AccessListSnapshot ==
  [][/\ (/\ resp'.op \in {"viewDocument", "downloadDocument"}
         /\ resp'.subject.role = "developer"
         /\ resp'.target \in DOMAIN documents
         /\ resp'.subject.id \notin listed(resp'.target))
          => (resp'.status = 403 /\ documents' = documents)
     /\ \A d \in DOMAIN documents \cap DOMAIN documents' :
          {access.userId : access \in documents'[d].accessibleBy} \ listed(d) # {}
            => /\ resp'.op = "updateDocument" /\ resp'.status = 200
               /\ resp'.target = d
               /\ \/ resp'.subject.role = "admin"
                  \/ /\ resp'.subject.role = "project-lead"
                     /\ owns(resp'.subject, documents[d].project)
     /\ resp'.op \in {"updateProject", "createProject", "deleteProject"}
          => documents' = documents
     /\ projects' # projects => documents' = documents]_vars

\* a developer on the project's team, but not on the access list of a document
\* uploaded before the developer joined, is refused the document
C11_Witness ==
  /\ resp.op \in {"viewDocument", "downloadDocument"} /\ resp.status = 403
  /\ resp.subject.role = "developer"
  /\ resp.target \in DOMAIN documents
  /\ documents[resp.target].project \in DOMAIN projects
  /\ resp.subject.id \in projects[documents[resp.target].project].assignedDevelopers
  /\ resp.subject.id \notin listed(resp.target)

\* the user a token was issued to is in the store and deactivated
inactive(token) == token.sub \in DOMAIN users /\ ~users[token.sub].isActive

C13_BearerOnly ==
  [][/\ \A h \in GateHeaders :
          (resp' # resp /\ resp'.token = h.token /\ ~wellFormed(h) /\ Protected(h))
            => /\ resp'.status = 401 /\ resp'.subject = NoSubject
               /\ UNCHANGED <<users, projects, documents, messages, tokens, rateHits>>
     /\ (resp' # resp /\ resp'.op \notin {"login", "refreshToken"}
           /\ resp'.status # 401)
          => verifyAccessToken(resp'.token, now) = "ok"]_vars

\* a deletion asked for with a valid access token under another scheme than
\* Bearer, turned away while the project is there
C13_Witness ==
  /\ resp.op = "deleteProject" /\ resp.status = 401 /\ resp.msg = "no-token"
  /\ resp.token.type = "access" /\ resp.token.role = "admin"
  /\ verifyAccessToken(resp.token, now) = "ok"
  /\ "p1" \in DOMAIN projects

\* what a client sees of a login's answer
loginView(r) == [status |-> r.status, msg |-> r.msg, issued |-> r.issued]

\* 401 'Invalid username or password'
GenericFailure == [status |-> 401, msg |-> "invalid", issued |-> {}]

\* 403 'Account is locked ...'
LockedFailure == [status |-> 403, msg |-> "locked", issued |-> {}]

\* C14: a login that reaches the controller and fails is answered with the
\* generic invalid-credentials response or, when the account is locked, with
\* the lock response; and a login with a wrong secret gets the generic response
\* both under a name that has no account and under the name of an account in
\* any state that is not locked, so the two answers are the same.
C14_NoEnumeration ==
  [][/\ (/\ resp'.op = "login" /\ rateHits' # rateHits
         /\ resp'.status \notin {200, 429})
          => loginView(resp') \in {GenericFailure, LockedFailure}
     /\ \A name \in {"dev@example.com", "ghost@example.com"} :
          (/\ login("ip1", name, "wrong") /\ Admitted("ip1", name)
           /\ \A id \in findByLogin(name) : ~isLocked(users[id], now))
            => loginView(resp') = GenericFailure]_vars

C16_SuccessResets ==
  [][(resp'.op = "login" /\ rateHits' # rateHits /\ resp'.status = 200)
       => /\ resp'.target \in DOMAIN users'
          /\ users'[resp'.target].loginAttempts = 0
          /\ users'[resp'.target].lockUntil = NullDate
          /\ resp'.issued # {}]_vars

\* a successful login at a time when a lock set earlier can have run out
C16_Witness ==
  /\ resp.op = "login" /\ resp.status = 200 /\ resp.target = "dev"
  /\ now >= lockTime
  /\ users["dev"].lastLogin = now
  /\ users["dev"].loginAttempts = 0 /\ users["dev"].lockUntil = NullDate

\* C17: a review is carried out only for an admin or for a project lead who
\* created or leads the request's project; an approving review sets the
\* project's status to completed, a rejecting one leaves the project as it was;
\* a review that is turned away changes neither the message nor the project;
\* and a request comes to be reviewed by no other step.
C17_ReviewByOwner ==
  [][/\ (resp'.op = "reviewCompletionRequest" /\ resp'.status = 200)
          => LET m == resp'.target
                 p == messages[m].project
             IN /\ m \in DOMAIN messages
                /\ messages[m].type = "completion-request"
                /\ messages[m].reviewedBy = NullId
                /\ messages'[m].reviewedBy = resp'.subject.id
                /\ \/ resp'.subject.role = "admin"
                   \/ /\ resp'.subject.role = "project-lead"
                      /\ p \in DOMAIN projects /\ owns(resp'.subject, p)
                /\ p \in DOMAIN projects =>
                     /\ messages'[m].type = "completion-approved"
                          => projects'[p].status = "completed"
                     /\ messages'[m].type = "completion-rejected"
                          => projects'[p].status = projects[p].status
     /\ (resp'.op = "reviewCompletionRequest" /\ resp'.status # 200)
          => (messages' = messages /\ projects' = projects)
     /\ \A m \in DOMAIN messages :
          (messages[m].reviewedBy = NullId /\ messages'[m].reviewedBy # NullId)
            => /\ resp'.op = "reviewCompletionRequest" /\ resp'.status = 200
               /\ resp'.target = m]_vars

\* a project lead who neither created nor leads the project, refused the review
\* of its outstanding completion request
C17_Witness ==
  /\ resp.op = "reviewCompletionRequest" /\ resp.status = 403
  /\ resp.subject.role = "project-lead"
  /\ resp.target \in DOMAIN messages
  /\ messages[resp.target].type = "completion-request"
  /\ messages[resp.target].reviewedBy = NullId
  /\ messages[resp.target].project \in DOMAIN projects
  /\ ~owns(resp.subject, messages[resp.target].project)

C19_DeleteProjectCascades ==
  [][/\ DOMAIN projects \ DOMAIN projects' # {}
          => /\ resp'.op = "deleteProject" /\ resp'.status = 200
             /\ resp'.subject.role = "admin"
             /\ DOMAIN projects \ DOMAIN projects' = {resp'.target}
             /\ \A d \in DOMAIN documents' : documents'[d].project # resp'.target
     /\ \A d \in DOMAIN documents' : documents'[d].project \in DOMAIN projects']_vars

\* the instants at which a login of the seeded developer succeeded: each
\* success hands out a refresh token stamped with its instant
successes == {tok.at : tok \in {k \in tokens : k.type = "refresh" /\ k.sub = "dev"}}

\* the hits the limiter holds against a key in the window that is running
hitsInWindow(key) ==
  IF now < rateHits[key].resetTime THEN rateHits[key].count ELSE 0

\* a login over the limit is answered 429 and changes neither the subject's
\* loginAttempts and lockUntil nor the tokens
OverLimitUntouched ==
  \A p \in {"Dev123!@#", "wrong"} :
    (login("ip1", "dev@example.com", p) /\ ~Admitted("ip1", "dev@example.com"))
      => /\ resp'.status = 429
         /\ users' = users /\ tokens' = tokens

C21_FailedChangeKeepsCredential ==
  [][(/\ resp'.op = "changePassword" /\ now' = now
      /\ resp'.msg \in {"old-incorrect", "mismatch"})
       => LET id == resp'.target
          IN /\ resp'.status = (IF resp'.msg = "mismatch" THEN 400 ELSE 401)
             /\ users'[id].password = users[id].password
             /\ users'[id].passwordChangedAt = users[id].passwordChangedAt
             /\ \A tok \in tokens :
                  (authenticate(Bearer(tok), now).status)'
                    = authenticate(Bearer(tok), now).status
             /\ \A p \in Passwords :
                  verifyPassword(users'[id], p) = verifyPassword(users[id], p)]_vars

\* a change-password request with a wrong old password has been answered 401
\* while the subject holds an access token that authenticate still accepts
C21_Witness ==
  /\ resp.op = "changePassword" /\ resp.status = 401 /\ resp.msg = "old-incorrect"
  /\ \E tok \in tokens :
       /\ tok.type = "access" /\ tok.sub = resp.target
       /\ authenticate(Bearer(tok), now).status = 200
  /\ verifyPassword(users[resp.target], "Dev123!@#")

\* C22: under every interleaving of failed logins on one subject the counter
\* does not reach the threshold without the lock: whenever no login is in
\* flight, loginAttempts >= 5 implies that lockUntil is set.
C22_ThresholdSetsLock ==
  (\A r \in DOMAIN inflight : inflight[r].op # "login")
    => \A id \in DOMAIN users :
         users[id].loginAttempts >= maxAttempts => users[id].lockUntil # NullDate

\* C23: two concurrent completion-request submissions for one project never
\* both succeed: under every interleaving of sendMessage requests a project
\* has at most one message of type completion-request with no reviewedBy.
C23_OneOutstandingUnderRaces ==
  \A p \in DOMAIN projects : Cardinality(pendingRequest(p)) <= 1

\* C24: two concurrent reviews of one completion request never both apply: a
\* review is written only to a completion-request that has no reviewedBy, and
\* once no review is in flight a project that a review has completed has a
\* message whose final type is completion-approved.
C24_ReviewsApplyOnce ==
  /\ [][\A m \in DOMAIN messages :
          messages'[m] # messages[m]
            => (messages[m].type = "completion-request"
                  /\ messages[m].reviewedBy = NullId)]_vars
  /\ [](waiting({"reviewSave", "reviewProject"}) = {}
          => \A p \in DOMAIN projects :
               projects[p].status = "completed"
                 => \E m \in DOMAIN messages :
                      /\ messages[m].project = p
                      /\ messages[m].type = "completion-approved"
                      /\ messages[m].reviewedBy # NullId)

\* C26: every message of type completion-approved or completion-rejected was
\* created as a completion-request and got its type through exactly one review:
\* it has reviewedBy set, no message is created with a reviewed type, and a
\* reviewed message's type does not change again.
C26_ReviewedTypeOnlyByReview ==
  /\ [](\A m \in DOMAIN messages :
          messages[m].type \in {"completion-approved", "completion-rejected"}
            => messages[m].reviewedBy # NullId)
  /\ [][/\ \A m \in DOMAIN messages' \ DOMAIN messages :
            messages'[m].type \in {"message", "completion-request"}
        /\ \A m \in DOMAIN messages :
            messages[m].reviewedBy # NullId => messages'[m].type = messages[m].type]_vars

\* C25: on every request that passes authentication the role in the request
\* context, the one the role and resource gates use, is the role stored for
\* the subject at that time; after an admin has changed a subject's role no
\* request of the subject runs under the old role.
C25_RoleIsCurrent ==
  [][(resp'.subject # NoSubject /\ resp'.subject.id \in DOMAIN users)
       => resp'.subject.role = users[resp'.subject.id].role]_vars

\* a login for the seeded developer while its lockUntil is in the future: the
\* lock response, no tokens, and loginAttempts, lockUntil and lastLogin as
\* they were, with the correct secret as with a wrong one
LockedLogin(ip, p, reaches) ==
  LET u == users["dev"]
  IN (/\ login(ip, "dev@example.com", p)
      /\ u.lockUntil # NullDate /\ u.lockUntil > now
      /\ reaches)
       => /\ resp'.status = 403 /\ resp'.msg = "locked"
          /\ resp'.issued = {} /\ tokens' = tokens
          /\ users'["dev"].loginAttempts = u.loginAttempts
          /\ users'["dev"].lockUntil = u.lockUntil
          /\ users'["dev"].lastLogin = u.lastLogin

C28_TeamRolesHold ==
  \A p \in DOMAIN projects :
    /\ projects[p].projectLead # NullId
         => /\ projects[p].projectLead \in DOMAIN users
            /\ users[projects[p].projectLead].role \in {"admin", "project-lead"}
    /\ \A d \in projects[p].assignedDevelopers :
         d \in DOMAIN users /\ users[d].role = "developer"

\* C29: a user is not hard-deleted while resources reference it: after a
\* deleteUser that succeeds no project has the deleted id as createdBy, as
\* projectLead or among its assignedDevelopers, and no document has it as
\* uploadedBy or on its access list.
C29_NoReferenceToDeletedUser ==
  [][(resp'.op = "deleteUser" /\ resp'.status = 200 /\ resp'.target \in DOMAIN users)
       => LET id == resp'.target
          IN /\ id \notin DOMAIN users'
             /\ \A p \in DOMAIN projects' :
                  /\ projects'[p].createdBy # id
                  /\ projects'[p].projectLead # id
                  /\ id \notin projects'[p].assignedDevelopers
             /\ \A d \in DOMAIN documents' :
                  /\ documents'[d].uploadedBy # id
                  /\ id \notin {access.userId : access \in documents'[d].accessibleBy}]_vars

\* the roles that authorize(...) lets through on the routes with a role gate
roleGate ==
  [updateProject |-> {"admin", "project-lead"}, deleteProject |-> {"admin"},
   uploadDocument |-> {"admin", "project-lead"},
   updateDocument |-> {"admin", "project-lead"},
   reviewCompletionRequest |-> {"admin", "project-lead"}]

\* C30: a request that fails the role gate and the resource gate of an
\* operation is answered with the role-gate denial, before the resource is
\* looked at: on project update and delete, document upload and update and
\* completion-request review a subject whose role is not allowed gets the
\* role denial whatever the resource; a completion-request sent by a subject
\* who is not a developer, for a project the subject has no access to, gets
\* the developers-only denial.
C30_RoleGateFirst ==
  [][/\ (/\ resp'.op \in DOMAIN roleGate
         /\ resp'.subject # NoSubject
         /\ resp'.subject.role \notin roleGate[resp'.op])
          => /\ resp'.status = 403 /\ resp'.msg = "forbidden"
             /\ UNCHANGED <<projects, documents, messages>>
     /\ resp'.op = "sendMessage"
          => \A h \in AccessHeaders, p \in DOMAIN projects :
               LET a == authenticate(h, now)
               IN (/\ a.status = 200
                   /\ a.user.role # "developer"
                   /\ ~messageAccess(a.user, projects[p])
                   /\ sendMessage(h, p, "done", "completion-request"))
                    => (resp'.status = 403 /\ resp'.msg = "developers-only")]_vars

\* C31: every resource-gate function returns a boolean, without throwing and
\* without changing state, on every subject and resource a controller passes
\* to it, a parent project that no longer exists included: a review that
\* reaches the access check gets a verdict of true or false from
\* hasProjectAccess and is not answered 500.
C31_GatesAreTotal ==
  [][(/\ resp'.op = "reviewCompletionRequest"
      /\ resp'.subject # NoSubject
      /\ resp'.subject.role \in {"admin", "project-lead"}
      /\ resp'.target \in DOMAIN messages
      /\ messages[resp'.target].type = "completion-request"
      /\ messages[resp'.target].reviewedBy = NullId)
       => /\ hasProjectAccessCall(resp'.subject, messages[resp'.target].project)
               \in {"true", "false"}
          /\ resp'.status # 500]_vars

\* C32: listProjects returns to a subject exactly the projects that getProject
\* allows the subject: the list of a 200 is the set of projects on which
\* hasProjectAccess holds for the subject, and getProject on an existing
\* project answers 200 exactly on those and 403 on the others.
C32_ListAgreesWithRead ==
  [][/\ (resp'.op = "listProjects" /\ resp'.status = 200)
          => resp'.data = {p \in DOMAIN projects :
                             hasProjectAccess(resp'.subject, populated(projects[p]))}
     /\ (/\ resp'.op = "getProject" /\ resp'.subject # NoSubject
         /\ resp'.target \in DOMAIN projects)
          => /\ resp'.status \in {200, 403}
             /\ resp'.status = 200
                  <=> hasProjectAccess(resp'.subject, populated(projects[resp'.target]))
             /\ resp'.data = IF resp'.status = 200 THEN {resp'.target} ELSE {}]_vars

\* a developer's list that leaves out a project of the store the developer is
\* not assigned to
C32_Witness ==
  /\ resp.op = "listProjects" /\ resp.status = 200
  /\ resp.subject.role = "developer"
  /\ \E p \in DOMAIN projects :
       p \notin resp.data /\ resp.subject.id \notin projects[p].assignedDevelopers

\* C33: every document that listProjectDocuments returns to a subject is one
\* that viewDocument and downloadDocument allow the subject: each document of
\* a 200 list passes canAccessDocument (admin, or member of accessibleBy) for
\* the subject of the request.
C33_ListedIsReadable ==
  [][(resp'.op = "listProjectDocuments" /\ resp'.status = 200)
       => \A d \in resp'.data : canAccessDocument(resp'.subject, documents[d])]_vars

\* C34: under every JWT configuration that passes startup validation a token
\* issued as a refresh token is never accepted by authenticate, and a token
\* issued as an access token is never accepted by the refresh-token endpoint.
C34_TokenKindsSeparate ==
  [][/\ (resp'.op = "me" /\ resp'.token.type = "refresh")
          => resp'.status = 401
     /\ (resp'.op = "refreshToken" /\ resp'.token.type = "access")
          => (resp'.status = 401 /\ resp'.issued = {} /\ tokens' = tokens)]_vars

\* the action logAccess records for a read operation
auditAction(op) == IF op = "viewDocument" THEN "viewed" ELSE "downloaded"

\* C35: an allowed view or download appends exactly one accessLog entry with
\* the requester's id and the action and changes nothing else, a denied one
\* appends none, and no other operation on a document that stays in the store
\* changes its accessLog: the log only grows, by reads.
C35_AuditLogAppendOnly ==
  [][/\ (/\ resp'.op \in {"viewDocument", "downloadDocument"}
         /\ resp'.subject # NoSubject
         /\ resp'.target \in DOMAIN documents)
          => LET d == resp'.target
             IN IF canAccessDocument(resp'.subject, documents[d])
                THEN /\ resp'.status \in {200, 302}
                     /\ documents' =
                          [documents EXCEPT
                             ![d].accessLog =
                               Append(@, [userId |-> resp'.subject.id,
                                          action |-> auditAction(resp'.op)])]
                ELSE resp'.status = 403 /\ documents' = documents
     /\ \A d \in DOMAIN documents \cap DOMAIN documents' :
          documents'[d].accessLog # documents[d].accessLog
            => /\ resp'.op \in {"viewDocument", "downloadDocument"}
               /\ resp'.target = d
               /\ SubSeq(documents'[d].accessLog, 1, Len(documents[d].accessLog))
                    = documents[d].accessLog]_vars

\* a download logged after a view: the log holds both entries, in that order
C35_Witness ==
  /\ resp.op = "downloadDocument" /\ resp.status = 302
  /\ resp.target \in DOMAIN documents
  /\ Len(documents[resp.target].accessLog) = 2
  /\ documents[resp.target].accessLog[1].action = "viewed"
  /\ documents[resp.target].accessLog[2]
       = [userId |-> resp.subject.id, action |-> "downloaded"]

\* C36: an updateDocument that gets as far as the classification accepts each
\* value of the data model, public, internal, confidential and secret, and
\* stores it, and rejects every other value with 400 and leaves the document
\* as it was; and the classification of every document in the store is one of
\* the four.
C36_ClassificationValues ==
  /\ [][resp'.op = "updateDocument" /\ resp'.status \notin {401, 403, 404}
          => \A h \in AccessHeaders, d \in DOMAIN documents, c \in LabelValues :
               updateDocument(h, d, c, NoAccessList)
                 => IF c \in {"public", "internal", "confidential", "secret"}
                    THEN resp'.status = 200 /\ documents'[d].classification = c
                    ELSE resp'.status = 400 /\ documents' = documents]_vars
  /\ [](\A d \in DOMAIN documents :
          documents[d].classification
            \in {"public", "internal", "confidential", "secret"})

C38_AnActiveAdminRemains ==
  \E u \in DOMAIN users : users[u].role = "admin" /\ users[u].isActive

C40_GateCopiesAgree ==
  \A p \in DOMAIN projects :
    \A project \in {projects[p], populated(projects[p])} :
      \A id \in DOMAIN DEMO_USERS, role \in Roles :
        LET user == [id |-> id, role |-> role]
        IN  /\ hasProjectAccess(user, project) <=> messageAccess(user, project)
            /\ hasProjectAccess(user, project) <=> canAccessProject(user, project)
            /\ canUploadToProject(user, project) <=> canModifyProject(user, project)
            /\ canModifyProject(user, project) => hasProjectAccess(user, project)
            /\ canUploadToProject(user, project) => canAccessProject(user, project)

\* A project led by someone other than its creator, with an assigned
\* developer: the creator acting as project lead passes all five gates, the
\* assigned developer passes the three read gates only, and another
\* developer passes none.
C40_Witness ==
  \E p \in DOMAIN projects :
    LET project == projects[p]
        creator == [id |-> project.createdBy, role |-> "project-lead"]
    IN  /\ project.createdBy # project.projectLead
        /\ canModifyProject(creator, project) /\ canAccessProject(creator, project)
        /\ \E d \in project.assignedDevelopers :
             LET user == [id |-> d, role |-> "developer"]
             IN  /\ hasProjectAccess(user, project) /\ messageAccess(user, project)
                 /\ canAccessProject(user, project)
                 /\ ~canModifyProject(user, project)
                 /\ ~canUploadToProject(user, project)
        /\ \E d \in DOMAIN DEMO_USERS \ project.assignedDevelopers :
             ~hasProjectAccess([id |-> d, role |-> "developer"], project)

====
